---- MODULE Spec2Model ----
(***************************************************************************)
(* Crawl orchestration of the Norsk Lovtidend scraper: the checkpoint      *)
(* ledger (checkpoint.py), the pagination walker (iter_pages,              *)
(* _parse_listing, _select_next_url) and the orchestrator (run).           *)
(*                                                                         *)
(* Optional values are sequences: <<>> is Python's None, <<v>> is v.       *)
(***************************************************************************)
EXTENDS Integers, Sequences, FiniteSets, Bags, TLC

\* ------------------------------------------------------------------ bounds
NumYears == 2
NumDocs == 3
PageSize == 2
MaxRuns == 2
MaxLimit == 1
MaxWalkOffset == 1
MaxWalkPages == 2
MaxWalkLimit == 2
MaxSaveIndex == 1
MaxSaveTotal == 1
MaxRetries == 4          \* the largest max_retries a scraper is built with
MaxBackoff == 2          \* the largest backoff_factor, in half seconds
MaxRetryAfter == 5       \* the largest Retry-After value, in half seconds
MaxTtl == 1              \* the largest ttl_seconds of a cache policy
MaxClock == 2            \* the latest time.time()
MaxSelectOffset == 2     \* the largest offset of a locator handed to _select_next_url
MaxPathLen == 3          \* the most segments in the path of a download URL
MaxCalls == 2            \* download_xml calls for the same URL
BodyChunks == 2          \* chunks in a response body

\* --------------------------------------------------------------- optionals
None == <<>>

Some(x) == <<x>>

IsNone(o) == o = <<>>

Get(o) == o[1]

Min(a, b) == IF a < b THEN a ELSE b

Max(a, b) == IF a > b THEN a ELSE b

\* -------------------------------------------------------------------- URLs
\* A listing locator is its query: the year parameter, the offset parameter,
\* the remaining filter parameters taken together, and the fragment.
\*   filter "none"     no filter parameter
\*          "stdblank" the defaults of _year_url, with the blank search=
\*          "std"      the same after a parse_qs round trip (blank dropped)
\*          "foo"      a caller's own filter
\* An offset parameter is [int |-> TRUE, n |-> k] or a non-numeric text.
IntOffset(k) == [int |-> TRUE, n |-> k]

TextOffset == [int |-> FALSE, n |-> 0]

Url(y, f, o, fr) == [year |-> y, filter |-> f, offset |-> o, frag |-> fr]

\* parse_qs without keep_blank_values drops the blank search= parameter
ParseQsFilter(f) == IF f = "stdblank" THEN "std" ELSE f

extract_offset(u) ==
    IF IsNone(u) THEN None
    ELSE IF IsNone(Get(u).offset) THEN None
    ELSE IF Get(Get(u).offset).int THEN Some(Get(Get(u).offset).n)
    ELSE None

_normalize_listing_url(u) ==
    IF IsNone(u) THEN None
    ELSE Some([Get(u) EXCEPT !.frag = FALSE])

\* merged_query = parse_qs(current.query); merged_query.update(parse_qs(target.query))
_merge_listing_query(current, target) ==
    Url(IF IsNone(target.year) THEN current.year ELSE target.year,
        IF target.filter = "none" THEN ParseQsFilter(current.filter)
                                  ELSE ParseQsFilter(target.filter),
        IF IsNone(target.offset) THEN current.offset ELSE target.offset,
        FALSE)

_build_offset_url(source, offset) ==
    Url(source.year, ParseQsFilter(source.filter),
        Some(IntOffset(Max(offset, 0))), FALSE)

_year_url(year) == Url(Some(year), "stdblank", None, FALSE)

_extract_year_from_url(u) ==
    IF IsNone(u) THEN None ELSE Get(u).year


\* ------------------------------------------------------------ _parse_listing
\* What a fetched listing page holds: the articles, the pagination summary
\* and the href of the "next" navigation control.
\*   summary.kind "match"     "Viser first - last av total"
\*                "noresults" the NO_RESULTS_TEXT sentinel
\*                "garbage"   neither
Summary(k, f, l, t) == [kind |-> k, first |-> f, last |-> l, total |-> t]

Content(d, s, a) == [docs |-> d, summary |-> s, anchor |-> a]

_parse_pagination_summary(s) ==
    CASE s.kind = "match" ->
           [error |-> FALSE, description |-> Some(s), first_index |-> Some(s.first),
            last_index |-> Some(s.last), total_count |-> Some(s.total)]
      [] s.kind = "noresults" ->
           [error |-> FALSE, description |-> Some(s), first_index |-> None,
            last_index |-> None, total_count |-> Some(0)]
      [] OTHER ->
           [error |-> TRUE, description |-> None, first_index |-> None,
            last_index |-> None, total_count |-> None]

_select_next_url_mut_anchor_first(page_url, summary_next, anchor_next) ==
    LET current_offset == extract_offset(Some(page_url))
        candidates == (IF IsNone(anchor_next) THEN <<>> ELSE <<Get(anchor_next)>>)
                      \o (IF ~IsNone(summary_next) /\ summary_next # anchor_next
                          THEN <<Get(summary_next)>> ELSE <<>>)
        Accepts(c) == LET co == extract_offset(Some(c))
                      IN IsNone(co) \/ IsNone(current_offset)
                         \/ Get(co) > Get(current_offset)
    IN IF Len(candidates) >= 1 /\ Accepts(candidates[1]) THEN Some(candidates[1])
       ELSE IF Len(candidates) >= 2 /\ Accepts(candidates[2]) THEN Some(candidates[2])
       ELSE None

_select_next_url(page_url, summary_next, anchor_next) ==
    LET current_offset == extract_offset(Some(page_url))
        candidates == (IF IsNone(summary_next) THEN <<>> ELSE <<Get(summary_next)>>)
                      \o (IF ~IsNone(anchor_next) /\ anchor_next # summary_next
                          THEN <<Get(anchor_next)>> ELSE <<>>)
        Accepts(c) == LET co == extract_offset(Some(c))
                      IN IsNone(co) \/ IsNone(current_offset)
                         \/ Get(co) > Get(current_offset)
    IN IF Len(candidates) >= 1 /\ Accepts(candidates[1]) THEN Some(candidates[1])
       ELSE IF Len(candidates) >= 2 /\ Accepts(candidates[2]) THEN Some(candidates[2])
       ELSE None

AnchorNext(content, page_url) ==
    IF IsNone(content.anchor) THEN None
    ELSE Some(_merge_listing_query(page_url, Get(content.anchor)))

SummaryNext(ps, page_url) ==
    IF ~IsNone(ps.total_count) /\ ~IsNone(ps.last_index)
       /\ Get(ps.total_count) > Get(ps.last_index)
    THEN Some(_build_offset_url(page_url, Get(ps.last_index)))
    ELSE None

_parse_listing_mut_unselected(content, page_url) ==
    LET ps == _parse_pagination_summary(content.summary)
        mismatch == /\ ~IsNone(ps.first_index) /\ ~IsNone(ps.last_index)
                    /\ Max(Get(ps.last_index) - Get(ps.first_index) + 1, 0)
                         # Len(content.docs)
    IN [error |-> ps.error \/ mismatch,
        documents |-> content.docs,
        next_url |-> IF IsNone(SummaryNext(ps, page_url))
                     THEN AnchorNext(content, page_url)
                     ELSE SummaryNext(ps, page_url),
        description |-> ps.description,
        first_index |-> ps.first_index,
        last_index |-> ps.last_index,
        total_count |-> ps.total_count]

_parse_listing(content, page_url) ==
    LET ps == _parse_pagination_summary(content.summary)
        mismatch == /\ ~IsNone(ps.first_index) /\ ~IsNone(ps.last_index)
                    /\ Max(Get(ps.last_index) - Get(ps.first_index) + 1, 0)
                         # Len(content.docs)
    IN [error |-> ps.error \/ mismatch,
        documents |-> content.docs,
        next_url |-> _select_next_url(page_url, SummaryNext(ps, page_url),
                                      AnchorNext(content, page_url)),
        description |-> ps.description,
        first_index |-> ps.first_index,
        last_index |-> ps.last_index,
        total_count |-> ps.total_count]

\* ---------------------------------------------------------------- iter_pages
\* The generator's frame.  started: a page was yielded and the code after
\* the yield (the truncated / next_url / max_pages / visited checks) has
\* still to run; done: the generator has returned.
DEFAULT_BASE_URL == Url(None, "none", None, FALSE)

NewIterPages(start_url, max_pages, limit) ==
    [current_url |-> _normalize_listing_url(
                         IF IsNone(start_url) THEN Some(DEFAULT_BASE_URL)
                         ELSE start_url),
     processed |-> 0,
     page_number |-> 0,
     visited_pages |-> {},
     seen_offsets |-> {},
     last_description |-> None,
     last_offset |-> None,
     max_pages |-> max_pages,
     limit |-> limit,
     started |-> FALSE,
     truncated |-> FALSE,
     next_url |-> None,
     done |-> ~IsNone(max_pages) /\ Get(max_pages) <= 0]

ListingPage(number, documents, current_url, next_url, resume_url, parsed) ==
    [number |-> number, documents |-> documents, current_url |-> current_url,
     next_url |-> next_url, resume_url |-> resume_url,
     description |-> parsed.description, first_index |-> parsed.first_index,
     last_index |-> parsed.last_index, total_count |-> parsed.total_count]

Stopped(g) == [gen |-> [g EXCEPT !.done = TRUE], page |-> None,
               error |-> FALSE, fetches |-> 0]

\* The stale-snapshot test of the inner loop (first pass only)
IsStale_mut_beyond(offset_value, parsed) ==
    /\ ~IsNone(offset_value)
    /\ Get(offset_value) > 0
    /\ ~IsNone(parsed.first_index)
    /\ Get(parsed.first_index) <= Get(offset_value) + 1

IsStale(offset_value, parsed) ==
    /\ ~IsNone(offset_value)
    /\ Get(offset_value) > 0
    /\ ~IsNone(parsed.first_index)
    /\ Get(parsed.first_index) <= Get(offset_value)

\* Line 248: the page has no numeric offset, or the one of the page before
SameOffset_mut_any(offset_value, last_offset) == TRUE

SameOffset(offset_value, last_offset) ==
    IsNone(offset_value) \/ offset_value = last_offset

\* Line 257: where the next run picks up after this page
ResumeUrl_mut_always_next(truncated, current_url, next_url) == next_url

ResumeUrl(truncated, current_url, next_url) ==
    IF truncated THEN Some(current_url) ELSE next_url

\* From the limit check to the yield, for the page parsed from current_url
IterYield(g, current_url, offset_value, parsed, fetches) ==
    LET next_url == _normalize_listing_url(parsed.next_url)
        remaining == IF IsNone(g.limit) THEN 0
                     ELSE Max(Get(g.limit) - g.processed, 0)
        truncated == ~IsNone(g.limit) /\ remaining < Len(parsed.documents)
        current_documents == IF truncated THEN SubSeq(parsed.documents, 1, remaining)
                             ELSE parsed.documents
        checks == ~truncated /\ ~IsNone(parsed.description)
        repeated == /\ checks
                    /\ ~IsNone(g.last_description)
                    /\ parsed.description = g.last_description
                    /\ SameOffset(offset_value, g.last_offset)
    IN IF ~IsNone(g.limit) /\ remaining = 0
         THEN [gen |-> [g EXCEPT !.done = TRUE], page |-> None,
               error |-> FALSE, fetches |-> fetches]
       ELSE IF repeated
         THEN [gen |-> [g EXCEPT !.done = TRUE], page |-> None,
               error |-> FALSE, fetches |-> fetches]
       ELSE [gen |-> [g EXCEPT
                        !.last_description =
                            IF checks THEN parsed.description ELSE @,
                        !.last_offset = IF checks THEN offset_value ELSE @,
                        !.processed = @ + Len(current_documents),
                        !.started = TRUE,
                        !.truncated = truncated,
                        !.next_url = next_url],
             page |-> Some(ListingPage(g.page_number, current_documents,
                                       current_url, next_url,
                                       ResumeUrl(truncated, current_url, next_url),
                                       parsed)),
             error |-> FALSE, fetches |-> fetches]

\* Lines 192-208: the frame once current_url has passed the loop checks
IterEnter_mut_forgets(g, current_url) ==
    [g EXCEPT !.current_url = Some(current_url),
              !.page_number = @ + 1]

IterEnter(g, current_url) ==
    [g EXCEPT !.current_url = Some(current_url),
              !.visited_pages = @ \cup {current_url},
              !.seen_offsets = IF IsNone(extract_offset(Some(current_url))) THEN @
                               ELSE @ \cup {Get(extract_offset(Some(current_url)))},
              !.page_number = @ + 1]

\* Lines 192-207: a locator already visited, or a numeric offset already seen
IterRejects_mut_offsets_unchecked(g, current_url) ==
    current_url \in g.visited_pages

IterRejects(g, current_url) ==
    \/ current_url \in g.visited_pages
    \/ /\ ~IsNone(extract_offset(Some(current_url)))
       /\ Get(extract_offset(Some(current_url))) \in g.seen_offsets

\* The first, cached, fetch of current_url gave a stale snapshot
IterStale(current_url, content1) ==
    /\ ~_parse_listing(content1, current_url).error
    /\ IsStale(extract_offset(Some(current_url)),
               _parse_listing(content1, current_url))

\* Lines 210-233 on the second pass: what the cache-bypassing fetch returned
\* is parsed and taken as it is
IterBypass(g, current_url, content2) ==
    IF _parse_listing(content2, current_url).error
    THEN [gen |-> [IterEnter(g, current_url) EXCEPT !.done = TRUE], page |-> None,
          error |-> TRUE, fetches |-> 2]
    ELSE IterYield(IterEnter(g, current_url), current_url,
                   extract_offset(Some(current_url)),
                   _parse_listing(content2, current_url), 2)

\* One pass of `while current_url:` for current_url, up to the yield.
\* content1 is what the cached fetch returns, content2 the cache-bypassing one.
IterLoop(g, current_url, content1, content2) ==
    IF IterRejects(g, current_url)
      THEN Stopped([g EXCEPT !.visited_pages = @ \cup {current_url}])
    ELSE IF _parse_listing(content1, current_url).error
      THEN [gen |-> [IterEnter(g, current_url) EXCEPT !.done = TRUE], page |-> None,
            error |-> TRUE, fetches |-> 1]
    ELSE IF ~IterStale(current_url, content1)
      THEN IterYield(IterEnter(g, current_url), current_url,
                     extract_offset(Some(current_url)),
                     _parse_listing(content1, current_url), 1)
    ELSE IterBypass(g, current_url, content2)

\* Lines 274-275: the page-count budget is used up
BudgetExhausted_mut_never(g) == FALSE

BudgetExhausted(g) == ~IsNone(g.max_pages) /\ g.page_number >= Get(g.max_pages)

\* The locator the generator fetches when it is next resumed, none if it
\* returns without fetching.
IterTarget(g) ==
    IF g.done THEN None
    ELSE IF ~g.started THEN g.current_url
    ELSE IF g.truncated \/ IsNone(g.next_url) THEN None
    ELSE IF BudgetExhausted(g) THEN None
    ELSE IF Get(g.next_url) \in g.visited_pages THEN None
    ELSE g.next_url

\* next(generator): runs the code after the previous yield, then the loop
IterNext(g, content1, content2) ==
    IF IsNone(IterTarget(g)) THEN Stopped(g)
    ELSE IterLoop(g, Get(IterTarget(g)), content1, content2)

\* ------------------------------------------------------------- checkpoint.py
\* The checkpoint file: none when absent, else its text and, when the text
\* is a whole JSON document, the payload it encodes.
\*   text "full"    json.dumps(payload) in full
\*        "empty"   zero bytes
\*        "partial" a proper prefix of json.dumps(payload)
\* and, for a file something else wrote or damaged,
\*        "notutf8"   bytes that are not UTF-8
\*        "nonobject" a JSON document that is not an object, such as []
\*        "nourl"     a JSON object without a resume_url, or with an empty one
\*        "badtotals" a JSON object with a resume_url whose total_documents
\*                    is not a number
Payload_mut_no_offset(resume_url, resume_index, total_documents, total_files) ==
    [resume_url |-> resume_url,
     offset |-> None,
     resume_index |-> IF resume_index >= 0 THEN resume_index ELSE 0,
     total_documents |-> total_documents,
     total_files |-> total_files]

Payload(resume_url, resume_index, total_documents, total_files) ==
    [resume_url |-> resume_url,
     offset |-> extract_offset(Some(resume_url)),
     resume_index |-> IF resume_index >= 0 THEN resume_index ELSE 0,
     total_documents |-> total_documents,
     total_files |-> total_files]

FileOf(text, payload) == Some([text |-> text, payload |-> payload])

\* save_checkpoint run to completion
save_checkpoint(file, resume_url, resume_index, total_documents, total_files) ==
    IF IsNone(resume_url) THEN None
    ELSE FileOf("full", Payload(Get(resume_url), resume_index,
                                total_documents, total_files))

update_checkpoint_file(file, resume_url, resume_index, total_documents, total_files) ==
    save_checkpoint(file, resume_url, resume_index, total_documents, total_files)

\* load_checkpoint: error is whether it raises, kind the exception raised,
\* state the CheckpointState or none
\*   29-32 read_text: FileNotFoundError is none, UnicodeDecodeError escapes
\*   34-37 json.loads: JSONDecodeError becomes CheckpointError
\*   39    payload.get: AttributeError when the payload is not a dict
\*   40-41 no resume_url is none
\*   55-56 int(payload.get("total_documents")): ValueError
Raised(kind) == [error |-> TRUE, kind |-> kind, state |-> None]

load_checkpoint(file) ==
    IF IsNone(file) THEN [error |-> FALSE, kind |-> "none", state |-> None]
    ELSE IF Get(file).text = "notutf8" THEN Raised("UnicodeDecodeError")
    ELSE IF Get(file).text \in {"empty", "partial"} THEN Raised("CheckpointError")
    ELSE IF Get(file).text = "nonobject" THEN Raised("AttributeError")
    ELSE IF Get(file).text = "nourl" THEN [error |-> FALSE, kind |-> "none", state |-> None]
    ELSE IF Get(file).text = "badtotals" THEN Raised("ValueError")
    ELSE [error |-> FALSE, kind |-> "none",
          state |-> Some([resume_url |-> Get(file).payload.resume_url,
                          offset |-> Get(file).payload.offset,
                          resume_index |-> Max(Get(file).payload.resume_index, 0),
                          total_documents |-> Get(file).payload.total_documents,
                          total_files |-> Get(file).payload.total_files])]

\* ------------------------------------------------------------------ the source
DEFAULT_FIRST_YEAR == 1982

\* run's year sequence: start_year defaulted, end_year NumYears - 1 later
years == [i \in 1..NumYears |-> DEFAULT_FIRST_YEAR + i - 1]

Doc(year, pos) == <<year, pos>>

AllDocs == {Doc(years[i], pos) : i \in 1..NumYears, pos \in 1..NumDocs}

\* The register as the site serves it: NumDocs documents a year, PageSize a
\* page, the page at offset o showing the documents o+1 .. o+PageSize, the
\* summary and the "next" control agreeing.
RegisterContent(u) ==
    LET off == IF IsNone(extract_offset(Some(u))) THEN 0
               ELSE Get(extract_offset(Some(u)))
        first == off + 1
        last == Min(off + PageSize, NumDocs)
    IN IF IsNone(u.year) \/ off >= NumDocs
       THEN Content(<<>>, Summary("noresults", 0, 0, 0), None)
       ELSE Content([k \in 1..(last - first + 1) |-> Doc(Get(u.year), off + k)],
                    Summary("match", first, last, NumDocs),
                    IF last < NumDocs
                    THEN Some(Url(u.year, "none", Some(IntOffset(last)), TRUE))
                    ELSE None)

\* The documents of the page at locator u, in listing order
PageDocs(u) == RegisterContent(u).docs

\* -------------------------------------------------------------------- state
VARIABLES
    file,                \* the checkpoint file
    disk,                \* documents whose file is in the output directory
    overwrite,           \* LovtidendScraper.overwrite
    pc,                  \* where run is: idle, year, iter, doc, download,
                         \*   commit, endyear
    runs,                \* runs started so far
    exit_status,         \* how the last run ended: -1 not yet, 0 returned,
                         \*   1 SystemExit(1), 2 SystemExit(2), 3 traceback
    exit_reason,         \* why: completed, incomplete, budget, interrupt,
                         \*   download_error, listing_error, checkpoint_error,
                         \*   parse_error, load_error
    use_checkpoint, total_documents, total_files,
    current_year_idx, current_start_url, remaining_limit, remaining_pages,
    pending_resume_index, stop_all, year_completed, local_resume_index,
    gen,                 \* the iter_pages generator of the current year
    page, idx, skip_in_page, page_resume_index, contiguous_prefix,
    \* history
    loaded,              \* the checkpoint this run resumed from, if it did
    fetch_calls,         \* documents passed to fetch_xml_links by this run
    refetched,           \* files on disk requested again with overwrite off
    last_event,          \* the last thing run did
    explicit_used,       \* some run was given an explicit start URL
    failed,              \* documents whose last attempt by this run ended
                         \*   in an error
    run_limit,           \* the limit argument of the run started last
    prev_failed,         \* the document whose download error ended the
                         \*   previous run inside a contiguous prefix
    report,              \* download_total and download_failures of this
                         \*   run, whether it printed its closing summary
                         \*   and whether that carried the failure warning
    \* a caller iterating iter_pages on its own (the walker specification)
    walk_pc,             \* idle, walking, stopped, failed
    walk_log,            \* the bag of the locators of the pages yielded so far
    walk_fetch,          \* the last listing fetch: its locator, whether it
                         \*   bypassed the cache, what it returned, and
                         \*   the bag of the locators refetched so far
    walk_last,           \* the last listing parsed: its locator, the two
                         \*   candidates and the locator chosen
    \* save_checkpoint and load_checkpoint step by step (the save
    \* specification)
    save_pc,             \* idle, opened (write_text has opened the file)
    save_args,           \* the payload being written
    load_result,         \* what the last load_checkpoint gave
    \* _get and download_xml attempt by attempt (the fetch specifications)
    get_call,            \* the frame of a _get call and what it did so far
    dl_call,             \* the frame of a download_xml call for one URL
    dl_files,            \* the destination, its .part and .html siblings
    \* ResponseCache (the cache specification)
    cache_store,         \* the entry file of each (namespace, key), if any
    cache_call,          \* the last read or write and how it ended
    clock,               \* time.time()
    \* a function applied to arguments of its own (the function specifications)
    fn_call              \* its name, its arguments and what it returned

cacheVars == <<cache_store, cache_call, clock>>

fetchVars == <<get_call, dl_call, dl_files, cacheVars, fn_call>>

persistVars == <<file, disk, overwrite, runs, exit_status, exit_reason>>

yearVars == <<use_checkpoint, current_year_idx, current_start_url,
              remaining_limit, remaining_pages, pending_resume_index,
              stop_all, year_completed, local_resume_index>>

pageVars == <<gen, page, idx, skip_in_page, page_resume_index, contiguous_prefix>>

histVars == <<loaded, fetch_calls, refetched, explicit_used, failed, prev_failed,
             run_limit>>

walkVars == <<walk_pc, walk_log, walk_fetch, walk_last>>

saveVars == <<save_pc, save_args, load_result>>

Event(kind, url, i, contiguous) ==
    [kind |-> kind, url |-> url, idx |-> i, contiguous |-> contiguous]

NoEvent == Event("none", None, 0, TRUE)

NoPage == ListingPage(0, <<>>, DEFAULT_BASE_URL, None, None,
                      [description |-> None, first_index |-> None,
                       last_index |-> None, total_count |-> None])

\* run's arguments
Limits == {None} \cup {Some(n) : n \in 1..MaxLimit}

PageBudgets == {None, Some(1)}

ExplicitStartUrl == Url(Some(years[1]), "foo", Some(IntOffset(PageSize)), TRUE)

StartUrls == {None, Some(ExplicitStartUrl)}

\* ---------------------------------------------------------------------- run
\* ensure_year: the 0-based position of year_value in years (the model's
\* locators only carry years of the range, so years never grows)
ensure_year(year_value) == year_value - DEFAULT_FIRST_YEAR

align_start(url) ==
    IF IsNone(url) THEN [url |-> _year_url(years[1]), index |-> 0]
    ELSE IF IsNone(_extract_year_from_url(url))
      THEN [url |-> _merge_listing_query(_year_url(years[1]), Get(url)),
            index |-> 0]
    ELSE [url |-> _merge_listing_query(
                      _year_url(Get(_extract_year_from_url(url))), Get(url)),
          index |-> ensure_year(Get(_extract_year_from_url(url)))]

\* Lines 776-777: the download counters of a run
NoReport == [download_total |-> 0, download_failures |-> 0,
             summary |-> FALSE, warned |-> FALSE]

\* Lines 1036-1042: failure_rate > 0.1
FailureRateWarning(download_failures, download_total) ==
    download_total # 0 /\ download_failures * 10 > download_total

\* Lines 1024-1042: what run prints when control leaves the try block without
\* SystemExit or another exception
ClosingSummary(r) ==
    [r EXCEPT !.summary = TRUE,
              !.warned = FailureRateWarning(r.download_failures, r.download_total)]

\* The report after a step that attempted no download
Reported == IF pc' = "idle" /\ exit_status' = 0 THEN ClosingSummary(report)
            ELSE report

\* run returns or exits
Finish_mut_swallowed(status, reason) ==
    /\ pc' = "idle"
    /\ exit_status' = 0
    /\ exit_reason' = reason

Finish(status, reason) ==
    /\ pc' = "idle"
    /\ exit_status' = status
    /\ exit_reason' = reason

\* Lines 768-828: load the checkpoint, choose the start, enter the year loop
\* Lines 786-800: the checkpoint is taken when one was loaded and no start
\* URL was given
Resuming_mut_checkpoint_first(state, p_start_url) == ~IsNone(state)

Resuming(state, p_start_url) == ~IsNone(state) /\ IsNone(p_start_url)

RunStart(p_start_url, p_max_pages, p_limit, p_no_resume) ==
    /\ pc = "idle"
    /\ runs < MaxRuns
    /\ runs' = runs + 1
    /\ LET ld == IF ~p_no_resume THEN load_checkpoint(file)
                 ELSE [error |-> FALSE, kind |-> "none", state |-> None]
           resumed == ~p_no_resume /\ Resuming(ld.state, p_start_url)
           start_url == IF resumed THEN Some(Get(ld.state).resume_url)
                        ELSE p_start_url
           resume_index == IF resumed THEN Max(Get(ld.state).resume_index, 0)
                           ELSE 0
           aligned == align_start(start_url)
       IN /\ use_checkpoint' = ~p_no_resume
          /\ loaded' = IF resumed THEN ld.state ELSE None
          /\ total_documents' = IF resumed THEN Get(ld.state).total_documents ELSE 0
          /\ total_files' = IF resumed THEN Get(ld.state).total_files ELSE 0
          /\ current_start_url' = Some(aligned.url)
          /\ current_year_idx' = aligned.index
          /\ pending_resume_index' = resume_index
          /\ prev_failed' =
                 IF resumed /\ use_checkpoint /\ exit_reason = "download_error"
                    /\ last_event.contiguous
                 THEN Some(page.documents[idx + 1]) ELSE None
          /\ IF ld.error
             THEN IF ld.kind = "CheckpointError" THEN Finish(2, "checkpoint_error")
                  ELSE Finish(3, "load_error")
             ELSE pc' = "year" /\ exit_status' = -1 /\ exit_reason' = "running"
    /\ remaining_limit' = p_limit
    /\ run_limit' = p_limit
    /\ remaining_pages' = p_max_pages
    /\ stop_all' = FALSE
    /\ year_completed' = TRUE
    /\ local_resume_index' = 0
    /\ gen' = NewIterPages(None, Some(0), None)
    /\ page' = NoPage
    /\ idx' = 0
    /\ skip_in_page' = 0
    /\ page_resume_index' = 0
    /\ contiguous_prefix' = TRUE
    /\ fetch_calls' = <<>>
    /\ refetched' = {}
    /\ last_event' = NoEvent
    /\ explicit_used' = (explicit_used \/ ~IsNone(p_start_url))
    /\ failed' = {}
    /\ UNCHANGED <<file, disk, overwrite>>
    /\ report' = NoReport
    /\ UNCHANGED <<walkVars, saveVars>>

\* run called by a caller of the class
StartRun(p_start_url, p_max_pages, p_limit, p_no_resume) ==
    /\ RunStart(p_start_url, p_max_pages, p_limit, p_no_resume)
    /\ UNCHANGED fetchVars

\* Lines 831-856: the top of the year loop, up to the call of iter_pages
YearLoop ==
    /\ pc = "year"
    /\ IF \/ current_year_idx >= Len(years)
          \/ stop_all
          \/ (~IsNone(remaining_limit) /\ Get(remaining_limit) <= 0)
          \/ (~IsNone(remaining_pages) /\ Get(remaining_pages) <= 0)
       THEN /\ Finish(0, "budget")
            /\ UNCHANGED <<current_start_url, pending_resume_index,
                           year_completed, local_resume_index, gen>>
       ELSE LET current_year == years[current_year_idx + 1]
                restart == \/ IsNone(current_start_url)
                           \/ _extract_year_from_url(current_start_url)
                                # Some(current_year)
                start == IF restart THEN Some(_year_url(current_year))
                         ELSE current_start_url
            IN /\ current_start_url' = start
               /\ local_resume_index' = IF restart THEN 0 ELSE pending_resume_index
               /\ pending_resume_index' = 0
               /\ year_completed' = TRUE
               /\ gen' = NewIterPages(start, remaining_pages, remaining_limit)
               /\ pc' = "iter"
               /\ UNCHANGED <<exit_status, exit_reason>>
    /\ UNCHANGED <<file, disk, overwrite, runs, use_checkpoint, total_documents,
                   total_files, current_year_idx, remaining_limit,
                   remaining_pages, stop_all, page, idx, skip_in_page,
                   page_resume_index, contiguous_prefix, last_event>>
    /\ UNCHANGED histVars
    /\ report' = Reported
    /\ UNCHANGED <<walkVars, saveVars, fetchVars>>

\* Lines 859-866: how many leading documents of the page are skipped
SkipInPage_mut_none(resume_index, documents) == 0

SkipInPage(resume_index, documents) ==
    IF resume_index # 0 /\ Len(documents) > 0
    THEN Min(resume_index, Len(documents)) ELSE 0

\* Lines 860-866: the resume index the page starts with
StartResumeIndex(resume_index, documents) ==
    IF resume_index # 0 /\ Len(documents) > 0
    THEN Min(resume_index, Len(documents)) ELSE resume_index

\* Lines 852-877: iter_pages is resumed; a yielded page is taken up, its
\* leading documents skipped and the checkpoint written at its locator
NextPage ==
    /\ pc = "iter"
    /\ LET target == IterTarget(gen)
           content == IF IsNone(target) THEN RegisterContent(DEFAULT_BASE_URL)
                      ELSE RegisterContent(Get(target))
           r == IterNext(gen, content, content)
       IN /\ gen' = r.gen
          /\ IF r.error
             THEN /\ Finish(3, "parse_error")
                  /\ UNCHANGED <<file, page, idx, skip_in_page, page_resume_index,
                                 contiguous_prefix, local_resume_index,
                                 last_event>>
             ELSE IF IsNone(r.page)
             THEN /\ pc' = "endyear"
                  /\ UNCHANGED <<file, exit_status, exit_reason, page, idx, skip_in_page,
                                 page_resume_index, contiguous_prefix,
                                 local_resume_index, last_event>>
             ELSE LET documents == Get(r.page).documents
                      skip == SkipInPage(local_resume_index, documents)
                      pri == StartResumeIndex(local_resume_index, documents)
                  IN /\ page' = Get(r.page)
                     /\ skip_in_page' = skip
                     /\ page_resume_index' = pri
                     /\ local_resume_index' = 0
                     /\ contiguous_prefix' = TRUE
                     /\ file' = IF use_checkpoint
                                THEN update_checkpoint_file(file,
                                         Some(Get(r.page).current_url), pri,
                                         total_documents, total_files)
                                ELSE file
                     /\ idx' = skip
                     /\ last_event' = Event("page", Some(Get(r.page).current_url),
                                            skip, TRUE)
                     /\ pc' = "doc"
                     /\ UNCHANGED <<exit_status, exit_reason>>
    /\ UNCHANGED <<disk, overwrite, runs, use_checkpoint, total_documents,
                   total_files, current_year_idx, current_start_url,
                   remaining_limit, remaining_pages, pending_resume_index,
                   stop_all, year_completed>>
    /\ UNCHANGED histVars
    /\ report' = Reported
    /\ UNCHANGED <<walkVars, saveVars, fetchVars>>

\* _fetch_listing_page raises RequestException inside iter_pages: lines
\* 1022-1024 turn it into SystemExit(1)
ListingFetchFails ==
    /\ pc = "iter"
    /\ ~IsNone(IterTarget(gen))
    /\ ~IterRejects(gen, Get(IterTarget(gen)))
    /\ Finish(1, "listing_error")
    /\ UNCHANGED <<file, disk, overwrite, runs, total_documents, total_files,
                   last_event>>
    /\ UNCHANGED yearVars
    /\ UNCHANGED pageVars
    /\ UNCHANGED histVars
    /\ report' = Reported
    /\ UNCHANGED <<walkVars, saveVars, fetchVars>>

\* The checkpoint write of lines 870-877, 892-899, 906-913, 928-935, 950-956
\* and 966-972: the page's own locator with the page's resume index
SavePage(resume_index, documents_total, files_total) ==
    IF use_checkpoint
    THEN update_checkpoint_file(file, Some(page.current_url), resume_index,
                                documents_total, files_total)
    ELSE file

CurrentDoc == page.documents[idx + 1]

\* Line 891 / 927: where the resume index freezes on the first failure
FailureResumeIndex_mut_next(i) == i + 1

FailureResumeIndex(i) == i

\* Line 905: the resume index after a document without any XML link
NoLinkResumeIndex(i) == i + 1

\* Lines 879-914: fetch_xml_links for the document at idx
\*   "error"   RequestException
\*   "nolinks" an empty list
\*   "links"   at least one link
FetchXmlLinks(outcome) ==
    /\ pc = "doc"
    /\ idx < Len(page.documents)
    /\ fetch_calls' = Append(fetch_calls, CurrentDoc)
    /\ last_event' = Event(outcome, Some(page.current_url), idx, contiguous_prefix)
    /\ CASE outcome = "error" ->
              /\ contiguous_prefix' = FALSE
              /\ page_resume_index' = IF contiguous_prefix
                                      THEN FailureResumeIndex(idx)
                                      ELSE page_resume_index
              /\ file' = IF contiguous_prefix
                         THEN SavePage(FailureResumeIndex(idx),
                                       total_documents, total_files)
                         ELSE file
              /\ idx' = idx + 1
              /\ pc' = "doc"
         [] outcome = "nolinks" ->
              /\ contiguous_prefix' = contiguous_prefix
              /\ page_resume_index' = IF contiguous_prefix
                                      THEN NoLinkResumeIndex(idx)
                                      ELSE page_resume_index
              /\ file' = IF contiguous_prefix
                         THEN SavePage(NoLinkResumeIndex(idx),
                                       total_documents, total_files)
                         ELSE file
              /\ idx' = idx + 1
              /\ pc' = "doc"
         [] outcome = "links" ->
              /\ pc' = "download"
              /\ UNCHANGED <<contiguous_prefix, page_resume_index, file, idx>>
    /\ failed' = IF outcome = "error" THEN failed \cup {CurrentDoc} ELSE failed
    /\ UNCHANGED <<disk, overwrite, runs, exit_status, exit_reason,
                   total_documents, total_files, gen, page, skip_in_page>>
    /\ UNCHANGED yearVars
    /\ UNCHANGED <<loaded, refetched, explicit_used, prev_failed, run_limit>>
    /\ report' = Reported
    /\ UNCHANGED <<walkVars, saveVars, fetchVars>>

\* Lines 329-334 of download_xml: the destination is there and overwrite is off
DestinationKept_mut_never(doc) == FALSE

DestinationKept(doc) == doc \in disk /\ ~overwrite

\* Lines 916-936: download_xml for the document at idx.  ok: every request
\* of the call succeeded in the end (through retries or the HTML fallback);
\* ~ok: it raised RequestException, which run re-raises after checkpointing
DownloadXml(ok) ==
    /\ pc = "download"
    /\ DestinationKept(CurrentDoc) => ok
    /\ refetched' = IF ~DestinationKept(CurrentDoc) /\ CurrentDoc \in disk /\ ~overwrite
                    THEN refetched \cup {CurrentDoc} ELSE refetched
    /\ IF ok
       THEN /\ disk' = disk \cup {CurrentDoc}
            /\ pc' = "commit"
            /\ last_event' = Event("downloaded", Some(page.current_url), idx,
                                   contiguous_prefix)
            /\ failed' = failed \ {CurrentDoc}
            /\ UNCHANGED <<exit_status, exit_reason, contiguous_prefix,
                           page_resume_index, file>>
       ELSE /\ contiguous_prefix' = FALSE
            /\ page_resume_index' = IF contiguous_prefix
                                    THEN FailureResumeIndex(idx)
                                    ELSE page_resume_index
            /\ file' = IF contiguous_prefix
                       THEN SavePage(FailureResumeIndex(idx),
                                     total_documents, total_files)
                       ELSE file
            /\ last_event' = Event("download_error", Some(page.current_url), idx,
                                   contiguous_prefix)
            /\ failed' = failed \cup {CurrentDoc}
            /\ Finish(1, "download_error")
            /\ UNCHANGED disk
    /\ UNCHANGED <<overwrite, runs, total_documents, total_files,
                   gen, page, idx, skip_in_page>>
    /\ UNCHANGED yearVars
    /\ UNCHANGED <<loaded, fetch_calls, explicit_used, prev_failed, run_limit>>
    /\ report' = [report EXCEPT !.download_total = @ + 1,
                                !.download_failures = IF ok THEN @ ELSE @ + 1]
    /\ UNCHANGED <<walkVars, saveVars, fetchVars>>

\* Line 942: the resume index after a saved document
CommitResumeIndex(contiguous, i, resume_index) ==
    IF contiguous THEN i + 1 ELSE resume_index

\* Lines 949-956: the checkpoint after a saved document
CommitSave_mut_skip(resume_index, documents_total, files_total) == file

CommitSave(resume_index, documents_total, files_total) ==
    IF contiguous_prefix
    THEN SavePage(resume_index, documents_total, files_total)
    ELSE file

\* Lines 938-956: the document is counted and, while the prefix is
\* contiguous, the checkpoint moves past it
CommitDocument ==
    /\ pc = "commit"
    /\ total_documents' = total_documents + 1
    /\ total_files' = total_files + 1
    /\ page_resume_index' = CommitResumeIndex(contiguous_prefix, idx, page_resume_index)
    /\ file' = CommitSave(page_resume_index', total_documents', total_files')
    /\ idx' = idx + 1
    /\ pc' = "doc"
    /\ last_event' = Event("committed", Some(page.current_url), idx, contiguous_prefix)
    /\ UNCHANGED <<disk, overwrite, runs, exit_status, exit_reason, gen, page,
                   skip_in_page, contiguous_prefix>>
    /\ UNCHANGED yearVars
    /\ UNCHANGED histVars
    /\ report' = Reported
    /\ UNCHANGED <<walkVars, saveVars, fetchVars>>

\* Lines 958-959
PageTruncated_mut_never == FALSE

PageTruncated == page.resume_url = Some(page.current_url)

PageCompleted == contiguous_prefix /\ page_resume_index >= Len(page.documents)

\* Lines 964-980: the checkpoint at the end of a page
EndPageSave ==
    IF ~use_checkpoint THEN file
    ELSE IF PageTruncated \/ ~PageCompleted
      THEN update_checkpoint_file(file, Some(page.current_url), page_resume_index,
                                  total_documents, total_files)
    ELSE update_checkpoint_file(file, page.resume_url, 0,
                                total_documents, total_files)

\* Lines 958-993: the page's documents are exhausted
EndPage ==
    /\ pc = "doc"
    /\ idx >= Len(page.documents)
    /\ file' = EndPageSave
    /\ LET limit_left == IF IsNone(remaining_limit) THEN None
                         ELSE Some(Get(remaining_limit) - Len(page.documents))
           limit_hit == ~IsNone(limit_left) /\ Get(limit_left) <= 0
           pages_left == IF IsNone(remaining_pages) \/ limit_hit THEN remaining_pages
                         ELSE Some(Get(remaining_pages) - 1)
           pages_hit == ~limit_hit /\ ~IsNone(pages_left) /\ Get(pages_left) <= 0
       IN /\ remaining_limit' = limit_left
          /\ remaining_pages' = pages_left
          /\ stop_all' = (stop_all \/ limit_hit \/ pages_hit)
          /\ year_completed' = (year_completed /\ PageCompleted
                                /\ ~limit_hit /\ ~pages_hit)
          /\ pc' = IF limit_hit \/ pages_hit THEN "endyear" ELSE "iter"
    /\ last_event' = Event("endpage", Some(page.current_url), idx, contiguous_prefix)
    /\ UNCHANGED <<disk, overwrite, runs, exit_status, exit_reason, use_checkpoint,
                   total_documents, total_files, current_year_idx,
                   current_start_url, pending_resume_index, local_resume_index>>
    /\ UNCHANGED pageVars
    /\ UNCHANGED histVars
    /\ report' = Reported
    /\ UNCHANGED <<walkVars, saveVars, fetchVars>>

\* Lines 995-1018: after the pages of a year
EndYear ==
    /\ pc = "endyear"
    /\ IF ~year_completed
       THEN /\ Finish(0, "incomplete")
            /\ UNCHANGED <<file, current_year_idx, current_start_url,
                           pending_resume_index>>
       ELSE LET next_idx == current_year_idx + 1
                next_resume_url == IF next_idx >= Len(years) THEN None
                                   ELSE Some(_year_url(years[next_idx + 1]))
            IN /\ current_year_idx' = next_idx
               /\ pending_resume_index' = 0
               /\ current_start_url' = next_resume_url
               /\ file' = IF use_checkpoint
                          THEN update_checkpoint_file(file, next_resume_url, 0,
                                   total_documents, total_files)
                          ELSE file
               /\ IF IsNone(next_resume_url) THEN Finish(0, "completed")
                  ELSE pc' = "year" /\ UNCHANGED <<exit_status, exit_reason>>
    /\ UNCHANGED <<disk, overwrite, runs, use_checkpoint, total_documents,
                   total_files, remaining_limit, remaining_pages, stop_all,
                   year_completed, local_resume_index, last_event>>
    /\ UNCHANGED pageVars
    /\ UNCHANGED histVars
    /\ report' = Reported
    /\ UNCHANGED <<walkVars, saveVars, fetchVars>>

\* Lines 1020-1021: KeyboardInterrupt anywhere inside the try block
Interrupt ==
    /\ pc \in {"year", "iter", "doc", "download", "commit", "endyear"}
    /\ Finish(0, "interrupt")
    /\ UNCHANGED <<file, disk, overwrite, runs, total_documents, total_files,
                   last_event>>
    /\ UNCHANGED yearVars
    /\ UNCHANGED pageVars
    /\ UNCHANGED histVars
    /\ report' = Reported
    /\ UNCHANGED <<walkVars, saveVars, fetchVars>>

\* KeyboardInterrupt raised inside path.write_text of the checkpoint save at
\* lines 949-956 (checkpoint.py 89): the file was opened, which truncates it,
\* and none or a part of the text was written; the handler at 1017-1018
\* catches the interrupt and run goes on to its summary
InterruptInSave(text) ==
    /\ pc = "commit"
    /\ contiguous_prefix /\ use_checkpoint
    /\ total_documents' = total_documents + 1
    /\ total_files' = total_files + 1
    /\ page_resume_index' = CommitResumeIndex(contiguous_prefix, idx, page_resume_index)
    /\ file' = FileOf(text, Payload(page.current_url, page_resume_index',
                                    total_documents', total_files'))
    /\ last_event' = Event("interrupt_in_save", Some(page.current_url), idx,
                           contiguous_prefix)
    /\ Finish(0, "interrupt")
    /\ UNCHANGED <<disk, overwrite, runs, gen, page, idx, skip_in_page,
                   contiguous_prefix>>
    /\ UNCHANGED yearVars
    /\ UNCHANGED histVars
    /\ report' = Reported
    /\ UNCHANGED <<walkVars, saveVars, fetchVars>>

runVars == <<disk, overwrite, pc, runs, exit_status, exit_reason, total_documents,
             total_files, yearVars, page, idx, skip_in_page, page_resume_index,
             contiguous_prefix, histVars, last_event, report>>

vars == <<file, gen, runVars, walkVars, saveVars, fetchVars>>

NoParse == [page_url |-> DEFAULT_BASE_URL, summary_next |-> None,
            anchor_next |-> None, next_url |-> None, page |-> NoPage,
            previous |-> None, fetched |-> 0]

NoFetch == [url |-> None, bypass |-> FALSE, first_index |-> None,
            description |-> None, malformed |-> FALSE, refetched |-> EmptyBag]

NoPayload == Payload(DEFAULT_BASE_URL, 0, 0, 0)

\* -------------------------------------------------------------- _target_path
\* A download URL: the segments of its path and the year its query names, if
\* any.  A segment is one of
\*   "xml", "LTI"            no year in it
\*   "1982", "1983"          a year and nothing else
\*   "sf-1982.xml"           a file name with a year in it
\*   "a.xml"                 a file name without one
\*   ".."                    the parent directory
Segments == {"xml", "LTI", "1982", "1983", "sf-1982.xml", "a.xml", ".."}

\* Lines 503-510: re.search(r"(19|20)\d{2}", fragment) on one segment
_year_from_fragment(segment) ==
    IF segment \in {"1982", "sf-1982.xml"} THEN Some(1982)
    ELSE IF segment = "1983" THEN Some(1983)
    ELSE None

\* str(year)
YearDir(year) == IF year = 1982 THEN "1982" ELSE "1983"

XmlUrl(path, query_year) == [path |-> path, query_year |-> query_year]

\* The first match in the path: its segments from left to right
RECURSIVE FirstYear(_)
FirstYear(path) ==
    IF path = <<>> THEN None
    ELSE IF ~IsNone(_year_from_fragment(Head(path))) THEN _year_from_fragment(Head(path))
    ELSE FirstYear(Tail(path))

\* Lines 493-501: the query values first, then the path
_guess_year(url) ==
    IF ~IsNone(url.query_year) THEN url.query_year ELSE FirstYear(url.path)

\* Path.resolve() on output_root / relative: a ".." removes the component
\* before it; above: how far the path has climbed over the output root
RECURSIVE Resolve(_, _, _)
Resolve(done, above, rest) ==
    IF rest = <<>> THEN [relative |-> done, above |-> above]
    ELSE IF Head(rest) = ".."
      THEN IF done = <<>> THEN Resolve(done, above + 1, Tail(rest))
           ELSE Resolve(SubSeq(done, 1, Len(done) - 1), above, Tail(rest))
    ELSE IF above > 0 THEN Resolve(done, above, <<>>)
    ELSE Resolve(Append(done, Head(rest)), above, Tail(rest))

\* Lines 394-408: the path of the destination below the output root, or
\* ValueError when it lies outside
_target_path(url) ==
    LET parts == url.path
        relative == IF parts # <<>> /\ parts[1] = "xml" THEN Tail(parts) ELSE parts
        name == IF relative = <<>> THEN None
                ELSE _year_from_fragment(relative[Len(relative)])
        year == IF ~IsNone(_guess_year(url)) THEN _guess_year(url) ELSE name
        placed == IF ~IsNone(year) /\ (relative = <<>> \/ relative[1] # YearDir(Get(year)))
                  THEN <<YearDir(Get(year))>> \o relative
                  ELSE relative
        target == Resolve(<<>>, 0, placed)
    IN IF target.above > 0 THEN [error |-> "ValueError", path |-> <<>>]
       ELSE [error |-> "none", path |-> target.relative]

NoFn == [fn |-> "none", args |-> <<>>, result |-> <<>>]

\* ------------------------------------------------------------------ cache.py
\* An entry file: payload is the text write was given, bytes how much of it
\* is in the file ("whole"; "torn", a shorter text; "undecodable", a prefix
\* that ends inside a multi-byte character), mtime its modification time.
CacheNamespaces == {"listing", "document"}

CacheUrls == {"u1"}

\* _path: namespace / sha1(key), one file per (namespace, key)
_path(namespace, key) == <<namespace, key>>

CacheSlots == {_path(n, k) : n \in CacheNamespaces, k \in CacheUrls}

CacheTexts == {"a", "b"}

CachePolicy(namespace, ttl_seconds) == [namespace |-> namespace, ttl_seconds |-> ttl_seconds]

CachePolicies == {CachePolicy(n, t) : n \in CacheNamespaces, t \in -1..MaxTtl}

Entry(payload, bytes, mtime) == [payload |-> payload, bytes |-> bytes, mtime |-> mtime]

\* What decoding the file gives: the text, a shorter text, or
\* UnicodeDecodeError
Torn(payload) == <<"torn", payload>>

\* Lines 26-44.  os_error: path.stat or path.read_text raises OSError
\* (FileNotFoundError for an absent entry).  The result is "miss" (None), "hit"
\* with the text, or "raised".
Fresh(entry, ttl_seconds, now) == ~(now - entry.mtime > ttl_seconds)

CacheResult(result, text) == [result |-> result, text |-> text]

Read(entry, policy, os_error, now) ==
    IF policy.ttl_seconds <= 0 THEN CacheResult("miss", None)
    ELSE IF IsNone(entry) \/ os_error THEN CacheResult("miss", None)
    ELSE IF ~Fresh(Get(entry), policy.ttl_seconds, now) THEN CacheResult("miss", None)
    ELSE IF Get(entry).bytes = "undecodable"
      THEN CacheResult("raised", Some("UnicodeDecodeError"))
    ELSE IF Get(entry).bytes = "torn" THEN CacheResult("hit", Some(Torn(Get(entry).payload)))
    ELSE CacheResult("hit", Some(Get(entry).payload))

NoCall == [op |-> "none", policy |-> CachePolicy("listing", 0), key |-> "u1",
           entry |-> None, os_error |-> FALSE, now |-> 0,
           outcome |-> CacheResult("none", None)]

\* ------------------------------------------------------ _get, download_xml
\* Times are counted in half seconds.
RETRIABLE_STATUSES == {408, 425, 429, 500, 502, 503, 504}

\* A Retry-After header: absent, the empty string, a number, or other text
RetryAfter(kind, n) == [kind |-> kind, n |-> n]

RetryAfters ==
    {RetryAfter("absent", 0), RetryAfter("text", 0),
     RetryAfter("num", -1), RetryAfter("num", MaxRetryAfter)}

\* What one request ends with: "ok" (a response with its body read), "http"
\* (raise_for_status raised HTTPError for the response) or "transport" (a
\* RequestException, a stream error included).  cls tells a requests.Response
\* ("requests") from a session's own response object ("plain").
Outcome(kind, status_code, retry_after, cls) ==
    [kind |-> kind, status_code |-> status_code, retry_after |-> retry_after,
     cls |-> cls]

Ok == Outcome("ok", 200, RetryAfter("absent", 0), "requests")

TransportError == Outcome("transport", 0, RetryAfter("absent", 0), "requests")

HttpErrors ==
    {Outcome("http", 404, RetryAfter("absent", 0), "requests")}
    \cup {Outcome("http", 503, ra, cls) : ra \in RetryAfters, cls \in {"requests", "plain"}}

Outcomes == {Ok, TransportError} \cup HttpErrors

\* `if response:` -- a requests.Response is true only when its status is
\* below 400; an object without __bool__ is always true
ResponseBool(response) ==
    IF response.cls = "requests" THEN response.status_code < 400 ELSE TRUE

\* self.max_retries and self.backoff_factor as __init__ stores them
ClampRetries_mut_unclamped(max_retries) == max_retries

ClampRetries(max_retries) == Max(1, max_retries)

ClampBackoff(backoff_factor) == Max(backoff_factor, 0)

_should_retry_mut_any_status(response, attempt, max_retries) ==
    attempt < max_retries

_should_retry(response, attempt, max_retries) ==
    response.status_code \in RETRIABLE_STATUSES /\ attempt < max_retries

\* base = backoff_factor * 2 ** (attempt - 1)
BackoffBase(attempt, backoff_factor) == backoff_factor * 2 ^ (attempt - 1)

\* The values random.uniform(0, base / 2) is sampled at: both ends
Jitters(base) == {0, base \div 2}

\* response is None when the error carried no response
_retry_delay(attempt, response, backoff_factor, jitter) ==
    IF /\ ~IsNone(response)
       /\ ResponseBool(Get(response))
       /\ Get(response).retry_after.kind = "num"
       /\ Get(response).retry_after.n >= 0
    THEN Get(response).retry_after.n
    ELSE BackoffBase(attempt, backoff_factor) + jitter

\* self._download_retry_min = 1.5
DownloadRetryMin == 3

_download_retry_delay(attempt, response, backoff_factor, jitter) ==
    Max(_retry_delay(attempt, response, backoff_factor, jitter), DownloadRetryMin)

\* A loop pass on record: what the request ended with and the delay handed
\* to _sleep, if the pass slept
Pass(outcome, delay) == [outcome |-> outcome, delay |-> delay]

NoGet == [pc |-> "idle", max_retries |-> 1, backoff_factor |-> 0, attempt |-> 0,
          last_error |-> None, raised |-> None, log |-> <<>>]

\* The response arrived and its body broke off while it was streamed
StreamError == Outcome("stream", 200, RetryAfter("absent", 0), "requests")

DlOutcomes ==
    {Ok, TransportError,
     Outcome("http", 404, RetryAfter("absent", 0), "requests"),
     Outcome("http", 503, RetryAfter("absent", 0), "requests")}

_should_use_html_fallback_mut_uncapped(attempt, html_fallback_url, max_retries) ==
    html_fallback_url /\ attempt >= max_retries

_should_use_html_fallback(attempt, html_fallback_url, max_retries) ==
    html_fallback_url /\ attempt >= Min(max_retries, 3)

\* temp_path.open("wb"): the .part file starts empty
OpenTemp_mut_append(part) == IF IsNone(part) THEN <<>> ELSE Get(part)

OpenTemp(part) == <<>>

\* Lines 329-334: the path download_xml returns without a request, if any
KeepExisting_mut_never(files, html_fallback_url) == None

KeepExisting(files, html_fallback_url) ==
    IF ~IsNone(files.destination) /\ ~overwrite THEN Some("xml")
    ELSE IF html_fallback_url /\ ~IsNone(files.html) /\ ~overwrite THEN Some("html")
    ELSE None

\* html_fallback_url: whether one was passed.  saved_paths: "xml" for the
\* destination, "html" for its .html sibling.  captures: calls of
\* _download_html_fallback.  discarded: chunks in the .part files the handlers
\* unlinked.  prev: how the call before this one ended.
NoDownload == [pc |-> "idle", call |-> 0, max_retries |-> 1, backoff_factor |-> 0,
               html_fallback_url |-> FALSE, attempt |-> 0, last_error |-> None,
               raised |-> None, saved_paths |-> <<>>, log |-> <<>>,
               captures |-> 0, discarded |-> 0, existed |-> FALSE, prev |-> None]

\* A file is None when absent; the destination and the .part file hold the
\* chunks written, each tagged with the call and attempt that wrote it
NoFiles == [destination |-> None, part |-> None, html |-> None]

\* The walker and the save steps at rest
AuxInit ==
    /\ fn_call = NoFn
    /\ cache_store = [slot \in CacheSlots |-> None]
    /\ cache_call = NoCall
    /\ clock = 0
    /\ get_call = NoGet
    /\ dl_call = NoDownload
    /\ dl_files = NoFiles
    /\ walk_pc = "idle"
    /\ walk_log = EmptyBag
    /\ walk_last = NoParse
    /\ walk_fetch = NoFetch
    /\ save_pc = "idle"
    /\ save_args = NoPayload
    /\ load_result = "none"

\* run at rest, before any run
RunInit ==
    /\ disk = {}
    /\ pc = "idle"
    /\ runs = 0
    /\ exit_status = -1
    /\ exit_reason = "none"
    /\ use_checkpoint = TRUE
    /\ total_documents = 0
    /\ total_files = 0
    /\ current_year_idx = 0
    /\ current_start_url = None
    /\ remaining_limit = None
    /\ remaining_pages = None
    /\ pending_resume_index = 0
    /\ stop_all = FALSE
    /\ year_completed = TRUE
    /\ local_resume_index = 0
    /\ page = NoPage
    /\ idx = 0
    /\ skip_in_page = 0
    /\ page_resume_index = 0
    /\ contiguous_prefix = TRUE
    /\ loaded = None
    /\ fetch_calls = <<>>
    /\ refetched = {}
    /\ last_event = NoEvent
    /\ explicit_used = FALSE
    /\ failed = {}
    /\ prev_failed = None
    /\ run_limit = None
    /\ report = NoReport

Init ==
    /\ file = None
    /\ overwrite \in BOOLEAN
    /\ gen = NewIterPages(None, Some(0), None)
    /\ RunInit
    /\ AuxInit

Next ==
    \/ \E p_start_url \in StartUrls, p_max_pages \in PageBudgets,
          p_limit \in Limits, p_no_resume \in BOOLEAN :
          StartRun(p_start_url, p_max_pages, p_limit, p_no_resume)
    \/ YearLoop
    \/ NextPage
    \/ ListingFetchFails
    \/ \E outcome \in {"error", "nolinks", "links"} : FetchXmlLinks(outcome)
    \/ \E ok \in BOOLEAN : DownloadXml(ok)
    \/ CommitDocument
    \/ EndPage
    \/ EndYear
    \/ Interrupt
    \/ \E text \in {"empty", "partial"} : InterruptInSave(text)

Spec == Init /\ [][Next]_vars

\* ------------------------------------------- save_checkpoint, step by step
\* Lines 72-89.  With resume_url none the file is unlinked.  Otherwise
\* path.write_text opens the file for writing, which empties it, and the
\* JSON text reaches it afterwards; the process can die in between.
SaveUrls == {None, Some(_year_url(years[1])),
             Some(Url(Some(years[1]), "std", Some(IntOffset(PageSize)), FALSE))}

SaveBegin(resume_url, resume_index, documents_total, files_total) ==
    /\ save_pc = "idle"
    /\ IF IsNone(resume_url)
       THEN /\ file' = None
            /\ UNCHANGED <<save_pc, save_args>>
       ELSE /\ save_args' = Payload(Get(resume_url), resume_index,
                                    documents_total, files_total)
            /\ file' = FileOf("empty", save_args')
            /\ save_pc' = "opened"
    /\ UNCHANGED <<gen, runVars, fetchVars, walkVars, load_result>>

\* Part of the text has reached the file
SaveFlush ==
    /\ save_pc = "opened"
    /\ Get(file).text = "empty"
    /\ file' = FileOf("partial", save_args)
    /\ UNCHANGED <<gen, runVars, fetchVars, walkVars, saveVars>>

\* write_text returns: the whole text is in the file
SaveClose ==
    /\ save_pc = "opened"
    /\ file' = FileOf("full", save_args)
    /\ save_pc' = "idle"
    /\ UNCHANGED <<gen, runVars, fetchVars, walkVars, save_args, load_result>>

\* The process is killed or interrupted inside write_text
SaveCrash ==
    /\ save_pc = "opened"
    /\ save_pc' = "idle"
    /\ UNCHANGED <<file, gen, runVars, fetchVars, walkVars, save_args, load_result>>

\* Lines 27-59, by a process started later
Load ==
    /\ save_pc = "idle"
    /\ load_result' = IF load_checkpoint(file).error THEN load_checkpoint(file).kind
                      ELSE IF IsNone(load_checkpoint(file).state) THEN "none"
                      ELSE "state"
    /\ UNCHANGED <<file, gen, runVars, fetchVars, walkVars, save_pc, save_args>>

SaveInit ==
    /\ file = None
    /\ overwrite = FALSE
    /\ gen = NewIterPages(None, Some(0), None)
    /\ RunInit
    /\ AuxInit

SaveNext ==
    \/ \E resume_url \in SaveUrls, resume_index \in -1..MaxSaveIndex,
          documents_total \in 0..MaxSaveTotal, files_total \in 0..MaxSaveTotal :
          SaveBegin(resume_url, resume_index, documents_total, files_total)
    \/ SaveFlush
    \/ SaveClose
    \/ SaveCrash
    \/ Load

SpecSave == SaveInit /\ [][SaveNext]_vars

\* -------------------------------------------- iter_pages over any register
\* What a register may answer, whatever the locator asked for: summaries
\* whose counters need not fit the offset, and "next" controls that may
\* point anywhere.
WalkIndexes == 1..(MaxWalkOffset + 1)

WalkSummaries ==
    {Summary("match", f, l, t) :
        f \in WalkIndexes, l \in WalkIndexes, t \in WalkIndexes \cup {MaxWalkOffset + 2}}
    \cup {Summary("noresults", 0, 0, 0), Summary("garbage", 0, 0, 0)}

WalkAnchors ==
    {None}
    \cup {Some(Url(None, "none", o, TRUE)) :
            o \in {None, Some(TextOffset)} \cup {Some(IntOffset(k)) : k \in 0..MaxWalkOffset}}
    \cup {Some(Url(None, "bar", Some(IntOffset(MaxWalkOffset)), TRUE))}

\* The articles a page with this summary shows
WalkDocs(s) ==
    IF s.kind = "match" /\ s.last >= s.first
    THEN [k \in 1..(s.last - s.first + 1) |-> Doc(0, s.first + k - 1)]
    ELSE <<>>

WalkContents ==
    {Content(WalkDocs(s), s, a) :
        s \in {x \in WalkSummaries :
                 x.kind = "match" =>
                    (x.first <= x.last /\ x.total \in {x.last, x.last + 1})},
        a \in WalkAnchors}
    \cup {Content(Append(WalkDocs(s), Doc(0, 0)), s, None) :
            s \in {x \in WalkSummaries :
                     x.kind = "match" /\ x.first <= x.last /\ x.total = x.last}}
    \cup {Content(<<>>, Summary("match", MaxWalkOffset + 2, 1, MaxWalkOffset + 2), None)}

WalkStartUrl == Url(Some(years[1]), "foo", None, FALSE)

WalkStart(max_pages, limit) ==
    /\ walk_pc = "idle"
    /\ gen' = NewIterPages(Some(WalkStartUrl), max_pages, limit)
    /\ walk_pc' = "walking"
    /\ UNCHANGED <<file, runVars, fetchVars, saveVars, walk_log, walk_fetch, walk_last>>

\* The listing fetch just made, for the record
WalkFetched(url, content, bypass) ==
    [url |-> Some(url), bypass |-> bypass,
     first_index |-> _parse_pagination_summary(content.summary).first_index,
     description |-> _parse_pagination_summary(content.summary).description,
     malformed |-> _parse_listing(content, url).error,
     refetched |-> IF bypass THEN walk_fetch.refetched (+) SetToBag({url})
                   ELSE walk_fetch.refetched]

\* What a pass of the loop leaves with the caller
WalkTake(r, url, accepted) ==
    /\ gen' = r.gen
    /\ IF r.error THEN walk_pc' = "failed" /\ UNCHANGED <<walk_log, walk_last>>
       ELSE IF IsNone(r.page)
         THEN walk_pc' = "stopped" /\ UNCHANGED <<walk_log, walk_last>>
       ELSE /\ walk_pc' = "walking"
            /\ walk_log' = walk_log (+) SetToBag({Get(r.page).current_url})
            /\ walk_last' =
                  [page_url |-> url,
                   summary_next |->
                       SummaryNext(_parse_pagination_summary(accepted.summary), url),
                   anchor_next |-> AnchorNext(accepted, url),
                   next_url |-> Get(r.page).next_url,
                   page |-> Get(r.page),
                   previous |-> IF walk_log = EmptyBag THEN None
                                ELSE Some(walk_last.page.current_url),
                   fetched |-> Len(accepted.docs)]

\* The caller asks for the next page and the register answers the cached
\* fetch with content1; a stale answer sends the loop round again
WalkNext(content1) ==
    /\ walk_pc = "walking"
    /\ ~IsNone(IterTarget(gen))
    /\ LET url == Get(IterTarget(gen))
       IN /\ walk_fetch' = IF IterRejects(gen, url) THEN walk_fetch
                          ELSE WalkFetched(url, content1, FALSE)
          /\ IF ~IterRejects(gen, url) /\ IterStale(url, content1)
             THEN /\ walk_pc' = "bypass"
                  /\ UNCHANGED <<gen, walk_log, walk_last>>
             ELSE WalkTake(IterLoop(gen, url, content1, content1), url, content1)
    /\ UNCHANGED <<file, runVars, fetchVars, saveVars>>

\* The cache-bypassing fetch is answered with content2
WalkRefetch(content2) ==
    /\ walk_pc = "bypass"
    /\ walk_fetch' = WalkFetched(Get(IterTarget(gen)), content2, TRUE)
    /\ WalkTake(IterBypass(gen, Get(IterTarget(gen)), content2),
                Get(IterTarget(gen)), content2)
    /\ UNCHANGED <<file, runVars, fetchVars, saveVars>>

\* The code after the last yield ends the iteration without a fetch
WalkEnd ==
    /\ walk_pc = "walking"
    /\ IsNone(IterTarget(gen))
    /\ gen' = Stopped(gen).gen
    /\ walk_pc' = "stopped"
    /\ UNCHANGED <<file, runVars, fetchVars, saveVars, walk_log, walk_fetch, walk_last>>

WalkInit == SaveInit

WalkStep ==
    \/ \E max_pages \in {None} \cup {Some(n) : n \in -1..MaxWalkPages},
          limit \in {None} \cup {Some(n) : n \in 0..MaxWalkLimit} :
          WalkStart(max_pages, limit)
    \/ \E content1 \in WalkContents : WalkNext(content1)
    \/ \E content2 \in WalkContents : WalkRefetch(content2)
    \/ WalkEnd

SpecWalk == WalkInit /\ [][WalkStep]_vars

\* A register whose next-page signals advance, stay, point backwards, name
\* no offset or name one that is not a number
WalkLiveContents ==
    {c \in WalkContents :
        /\ c.summary \in {Summary("match", 1, 1, 2), Summary("match", 1, 1, 1),
                           Summary("match", 2, 2, 3)}
        /\ Len(c.docs) = 1
        /\ c.anchor \in {None, Some(Url(None, "none", None, TRUE)),
                          Some(Url(None, "none", Some(TextOffset), TRUE)),
                          Some(Url(None, "none", Some(IntOffset(0)), TRUE)),
                          Some(Url(None, "none", Some(IntOffset(1)), TRUE))}}

WalkLiveStep ==
    \/ \E max_pages \in {None, Some(MaxWalkPages)} : WalkStart(max_pages, None)
    \/ \E content1 \in WalkLiveContents : WalkNext(content1)
    \/ \E content2 \in WalkLiveContents : WalkRefetch(content2)
    \/ WalkEnd

\* The caller keeps asking for the next page, and every fetch is answered
SpecWalkLive == WalkInit /\ [][WalkLiveStep]_vars /\ WF_vars(WalkLiveStep)

\* ---------------------------------------------------------------------- _get
GetCall(max_retries, backoff_factor) ==
    /\ get_call.pc = "idle"
    /\ get_call' = [NoGet EXCEPT !.pc = "loop",
                                 !.max_retries = ClampRetries(max_retries),
                                 !.backoff_factor = ClampBackoff(backoff_factor)]
    /\ UNCHANGED <<file, gen, runVars, walkVars, saveVars, dl_call, dl_files,
                   cacheVars, fn_call>>

\* Lines 679-701: one pass of `while attempt < self.max_retries`, and lines
\* 703-705 when the loop is left
GetLoop(outcome, jitter) ==
    /\ get_call.pc = "loop"
    /\ LET attempt == get_call.attempt + 1
           max_retries == get_call.max_retries
           Raise == [get_call EXCEPT !.pc = "raised", !.attempt = attempt,
                                     !.last_error = Some(outcome),
                                     !.raised = Some(outcome),
                                     !.log = Append(@, Pass(outcome, None))]
           Sleep(delay) == [get_call EXCEPT !.attempt = attempt,
                                            !.last_error = Some(outcome),
                                            !.log = Append(@, Pass(outcome, Some(delay)))]
           UsesJitter(response) ==
               _retry_delay(attempt, response, get_call.backoff_factor, 0)
                  # _retry_delay(attempt, response, get_call.backoff_factor, 1)
       IN IF get_call.attempt >= max_retries
          THEN /\ outcome = Ok /\ jitter = 0
               /\ get_call' = [get_call EXCEPT !.pc = "raised",
                                               !.raised = get_call.last_error]
          ELSE CASE outcome.kind = "ok" ->
                      /\ jitter = 0
                      /\ get_call' = [get_call EXCEPT
                                         !.pc = "returned", !.attempt = attempt,
                                         !.log = Append(@, Pass(outcome, None))]
                 [] outcome.kind = "http" ->
                      IF ~_should_retry(outcome, attempt, max_retries)
                      THEN jitter = 0 /\ get_call' = Raise
                      ELSE /\ jitter \in (IF UsesJitter(Some(outcome))
                                          THEN Jitters(BackoffBase(attempt,
                                                         get_call.backoff_factor))
                                          ELSE {0})
                           /\ get_call' = Sleep(_retry_delay(attempt, Some(outcome),
                                                   get_call.backoff_factor, jitter))
                 [] OTHER ->
                      IF attempt >= max_retries
                      THEN jitter = 0 /\ get_call' = Raise
                      ELSE /\ jitter \in Jitters(BackoffBase(attempt,
                                                    get_call.backoff_factor))
                           /\ get_call' = Sleep(_retry_delay(attempt, None,
                                                   get_call.backoff_factor, jitter))
    /\ UNCHANGED <<file, gen, runVars, walkVars, saveVars, dl_call, dl_files,
                   cacheVars, fn_call>>

GetInit == SaveInit

GetNext ==
    \/ \E max_retries \in 0..MaxRetries, backoff_factor \in {-1, 0, MaxBackoff} :
          GetCall(max_retries, backoff_factor)
    \/ \E outcome \in Outcomes, jitter \in 0..(MaxBackoff * 2 ^ MaxRetries) :
          GetLoop(outcome, jitter)

SpecGet == GetInit /\ [][GetNext]_vars

\* ------------------------------------------------------------ run's startup
\* Lines 768-848 over every kind of checkpoint file a run can find, up to the
\* first page the walker yields.
StartupTexts == {"empty", "partial", "notutf8", "nonobject", "nourl", "badtotals"}

StartupPayloads ==
    {Payload(Get(u), i, d, f) : u \in SaveUrls \ {None}, i \in 0..MaxSaveIndex,
                               d \in 0..MaxSaveTotal, f \in 0..MaxSaveTotal}

StartupFiles ==
    {None} \cup {FileOf("full", p) : p \in StartupPayloads}
           \cup {FileOf(t, NoPayload) : t \in StartupTexts}

StartupInit ==
    /\ file \in StartupFiles
    /\ overwrite = FALSE
    /\ gen = NewIterPages(None, Some(0), None)
    /\ RunInit
    /\ AuxInit

StartupNext ==
    \/ \E p_start_url \in StartUrls, p_max_pages \in PageBudgets,
          p_limit \in Limits, p_no_resume \in BOOLEAN :
          StartRun(p_start_url, p_max_pages, p_limit, p_no_resume)
    \/ YearLoop
    \/ NextPage
    \/ ListingFetchFails
    \/ Interrupt

SpecStartup == StartupInit /\ [][StartupNext]_vars

\* ----------------------------------------------------------------- main
\* __init__.py 83-102: the start URL main hands to run
make_start_url(base_url, start_url, offset, year) ==
    IF ~IsNone(start_url) THEN start_url
    ELSE IF IsNone(offset) /\ IsNone(year) THEN None
    ELSE Some(Url(IF IsNone(year) THEN base_url.year ELSE year, "stdblank",
                  IF IsNone(offset) THEN base_url.offset
                  ELSE Some(IntOffset(Get(offset))),
                  FALSE))

\* __init__.py 105-122: main with the command line's --start-url, --offset,
\* --max-pages, --limit and --no-resume; --start-year is an int that
\* defaults to 1982
Main(a_start_url, a_offset, a_max_pages, a_limit, a_no_resume) ==
    /\ RunStart(make_start_url(DEFAULT_BASE_URL, a_start_url, a_offset,
                               Some(DEFAULT_FIRST_YEAR)),
                a_max_pages, a_limit, a_no_resume)
    /\ fn_call' = [fn |-> "main", args |-> <<a_start_url, a_offset, a_no_resume>>,
                   result |-> <<>>]
    /\ UNCHANGED <<get_call, dl_call, dl_files, cacheVars>>

MainInit == StartupInit

MainNext ==
    \/ \E a_start_url \in StartUrls, a_offset \in {None, Some(PageSize)},
          a_max_pages \in PageBudgets, a_limit \in Limits, a_no_resume \in BOOLEAN :
          Main(a_start_url, a_offset, a_max_pages, a_limit, a_no_resume)
    \/ YearLoop
    \/ NextPage
    \/ ListingFetchFails
    \/ Interrupt

SpecMain == MainInit /\ [][MainNext]_vars

\* ------------------------------------------------- functions on their own
Paths(n) == UNION {[1..k -> Segments] : k \in 1..n}

TargetUrls == {XmlUrl(path, query_year) : path \in Paths(MaxPathLen),
                                          query_year \in {None, Some(1983)}}

\* Lines 394-408 applied to one URL
TargetPath(url) ==
    /\ fn_call' = [fn |-> "_target_path", args |-> <<url>>, result |-> _target_path(url)]
    /\ UNCHANGED <<file, gen, runVars, walkVars, saveVars, get_call, dl_call, dl_files,
                   cacheVars>>

TargetInit == SaveInit

TargetNext == \E url \in TargetUrls : TargetPath(url)

SpecTarget == TargetInit /\ [][TargetNext]_vars

\* ------------------------------------------ save_checkpoint, load_checkpoint
\* resume_url of a save_checkpoint call: none, or a locator whose offset
\* parameter is missing, not a number, or a number
RoundTripUrls ==
    {None} \cup {Some(Url(Some(years[1]), f, o, FALSE)) :
                    f \in {"stdblank", "std"},
                    o \in {None, Some(TextOffset)}
                          \cup {Some(IntOffset(n)) : n \in 0..PageSize}}

\* Lines 62-89 run to their end
SaveCheckpoint(resume_url, resume_index, documents_total, files_total) ==
    /\ file' = save_checkpoint(file, resume_url, resume_index,
                               documents_total, files_total)
    /\ fn_call' = [fn |-> "save_checkpoint",
                   args |-> <<resume_url, resume_index, documents_total, files_total>>,
                   result |-> <<>>]
    /\ UNCHANGED <<gen, runVars, walkVars, saveVars, get_call, dl_call, dl_files,
                   cacheVars>>

\* Lines 27-59 on the file the call before left; args keeps what was saved
LoadCheckpoint ==
    /\ fn_call.fn = "save_checkpoint"
    /\ fn_call' = [fn |-> "load_checkpoint", args |-> fn_call.args,
                   result |-> load_checkpoint(file)]
    /\ UNCHANGED <<file, gen, runVars, walkVars, saveVars, get_call, dl_call, dl_files,
                   cacheVars>>

RoundTripInit == SaveInit

RoundTripNext ==
    \/ \E resume_url \in RoundTripUrls, resume_index \in -1..MaxSaveIndex,
          documents_total \in 0..MaxSaveTotal, files_total \in 0..MaxSaveTotal :
          SaveCheckpoint(resume_url, resume_index, documents_total, files_total)
    \/ LoadCheckpoint

SpecRoundTrip == RoundTripInit /\ [][RoundTripNext]_vars

\* ------------------------------------------------------- _select_next_url
\* The offset parameter of a locator: missing, not a number, or an integer
SelectOffsets ==
    {None, Some(TextOffset)} \cup {Some(IntOffset(k)) : k \in -1..MaxSelectOffset}

\* page_url of line 618
SelectPages == {Url(Some(years[1]), "std", o, FALSE) : o \in SelectOffsets}

\* summary_next and anchor_next of line 618: None or a locator
SelectCandidates ==
    {None} \cup {Some(Url(Some(years[1]), f, o, FALSE)) :
                    f \in {"std", "none"}, o \in SelectOffsets}

\* Lines 617-637 applied to one page and its two candidates
SelectNextUrl(page_url, summary_next, anchor_next) ==
    /\ fn_call' = [fn |-> "_select_next_url",
                   args |-> <<page_url, summary_next, anchor_next>>,
                   result |-> _select_next_url(page_url, summary_next, anchor_next)]
    /\ UNCHANGED <<file, gen, runVars, walkVars, saveVars, get_call, dl_call, dl_files,
                   cacheVars>>

SelectInit == SaveInit

SelectNext ==
    \E page_url \in SelectPages, summary_next \in SelectCandidates,
       anchor_next \in SelectCandidates :
       SelectNextUrl(page_url, summary_next, anchor_next)

SpecSelect == SelectInit /\ [][SelectNext]_vars

\* ------------------------------------------------------------ ResponseCache
\* Lines 26-44: read
CacheRead(policy, key, os_error) ==
    /\ _path(policy.namespace, key) \in CacheSlots
    /\ LET entry == cache_store[_path(policy.namespace, key)]
       IN cache_call' = [op |-> "read", policy |-> policy, key |-> key,
                         entry |-> entry, os_error |-> os_error, now |-> clock,
                         outcome |-> Read(entry, policy, os_error, clock)]
    /\ UNCHANGED <<cache_store, clock>>
    /\ UNCHANGED <<file, gen, runVars, walkVars, saveVars, get_call, dl_call, dl_files,
                   fn_call>>

\* Lines 46-53: write.  how: "ok"; "open_error", OSError from mkdir or from
\* opening the file, swallowed; "write_error", OSError after the file was
\* opened (which truncates it) and a part was written, swallowed; "killed",
\* the process is killed at that point
CacheWrite(policy, key, payload, how, bytes) ==
    /\ _path(policy.namespace, key) \in CacheSlots
    /\ how \in {"ok", "open_error"} => bytes = "whole"
    /\ how \in {"write_error", "killed"} => bytes # "whole"
    /\ LET slot == _path(policy.namespace, key)
       IN /\ cache_store' =
                IF how = "open_error" THEN cache_store
                ELSE [cache_store EXCEPT ![slot] = Some(Entry(payload, bytes, clock))]
          /\ cache_call' = [op |-> "write", policy |-> policy, key |-> key,
                            entry |-> cache_store[slot], os_error |-> how # "ok",
                            now |-> clock,
                            outcome |-> CacheResult(IF how = "killed" THEN "killed"
                                                    ELSE "returned", None)]
    /\ UNCHANGED clock
    /\ UNCHANGED <<file, gen, runVars, walkVars, saveVars, get_call, dl_call, dl_files,
                   fn_call>>

\* Time passes
CacheTick ==
    /\ clock < MaxClock
    /\ clock' = clock + 1
    /\ UNCHANGED <<cache_store, cache_call>>
    /\ UNCHANGED <<file, gen, runVars, walkVars, saveVars, get_call, dl_call, dl_files,
                   fn_call>>

CacheInit == SaveInit

CacheNext ==
    \/ \E policy \in CachePolicies, key \in CacheUrls, os_error \in BOOLEAN :
          CacheRead(policy, key, os_error)
    \/ \E policy \in CachePolicies, key \in CacheUrls, payload \in CacheTexts,
          how \in {"ok", "open_error", "write_error", "killed"},
          bytes \in {"whole", "torn", "undecodable"} :
          CacheWrite(policy, key, payload, how, bytes)
    \/ CacheTick

SpecCache == CacheInit /\ [][CacheNext]_vars

\* -------------------------------------------------------------- download_xml
\* One URL, called up to MaxCalls times on the same output directory.
ChunkOf(call, attempt) == [call |-> call, attempt |-> attempt]

\* Lines 326-334: the call starts; an existing destination (or .html sibling)
\* is kept when overwrite is off
DlCall(max_retries, backoff_factor, html_fallback_url) ==
    /\ dl_call.pc \in {"idle", "returned", "raised", "crashed"}
    /\ dl_call.call < MaxCalls
    /\ LET frame == [NoDownload EXCEPT
                        !.call = dl_call.call + 1,
                        !.max_retries = ClampRetries(max_retries),
                        !.backoff_factor = ClampBackoff(backoff_factor),
                        !.html_fallback_url = html_fallback_url,
                        !.existed = ~IsNone(dl_files.destination),
                        !.prev = IF dl_call.call = 0 THEN None
                                 ELSE Some([max_retries |-> dl_call.max_retries,
                                            backoff_factor |-> dl_call.backoff_factor,
                                            html_fallback_url |-> dl_call.html_fallback_url,
                                            pc |-> dl_call.pc,
                                            saved_paths |-> dl_call.saved_paths,
                                            files |-> dl_files])]
           kept == KeepExisting(dl_files, html_fallback_url)
       IN dl_call' =
             IF IsNone(kept) THEN [frame EXCEPT !.pc = "loop"]
             ELSE [frame EXCEPT !.pc = "returned", !.saved_paths = kept]
    /\ UNCHANGED <<file, gen, runVars, walkVars, saveVars, get_call, dl_files,
                   cacheVars, fn_call>>

\* Lines 363-384: the handlers of a failed attempt.  capture_ok: whether
\* _download_html_fallback, if it is called, returns or raises
DlFail(frame, outcome, jitter, capture_ok) ==
    LET c == [frame EXCEPT !.last_error = Some(outcome),
                           !.discarded = IF IsNone(dl_files.part) THEN @
                                         ELSE @ + Len(Get(dl_files.part))]
        Raise == [c EXCEPT !.pc = "raised", !.raised = Some(outcome),
                           !.log = Append(@, Pass(outcome, None))]
        Sleep(delay) == [c EXCEPT !.pc = "loop",
                                  !.log = Append(@, Pass(outcome, Some(delay)))]
        response == IF outcome.kind = "http" THEN Some(outcome) ELSE None
    IN /\ dl_files' = [dl_files EXCEPT
                          !.part = None,
                          !.html = IF _should_use_html_fallback(c.attempt,
                                         c.html_fallback_url, c.max_retries)
                                      /\ capture_ok
                                   THEN Some("trimmed") ELSE @]
       /\ IF _should_use_html_fallback(c.attempt, c.html_fallback_url, c.max_retries)
          THEN /\ jitter = 0
               /\ dl_call' =
                     IF capture_ok
                     THEN [c EXCEPT !.pc = "returned", !.captures = @ + 1,
                                    !.saved_paths = Append(@, "html"),
                                    !.log = Append(@, Pass(outcome, None))]
                     ELSE [c EXCEPT !.pc = "raised", !.captures = @ + 1,
                                    !.raised = Some(TransportError),
                                    !.log = Append(@, Pass(outcome, None))]
          ELSE /\ capture_ok
               /\ IF IF outcome.kind = "http"
                     THEN ~_should_retry(outcome, c.attempt, c.max_retries)
                     ELSE c.attempt >= c.max_retries
                  THEN jitter = 0 /\ dl_call' = Raise
                  ELSE /\ jitter \in Jitters(BackoffBase(c.attempt, c.backoff_factor))
                       /\ dl_call' = Sleep(_download_retry_delay(c.attempt, response,
                                                c.backoff_factor, jitter))

\* Lines 338-350: a pass of the retry loop up to the response, and lines
\* 385-387 when the loop is left
DlRequest(outcome, jitter, capture_ok) ==
    /\ dl_call.pc = "loop"
    /\ outcome \in DlOutcomes
    /\ IF dl_call.attempt >= dl_call.max_retries
       THEN /\ outcome = Ok /\ jitter = 0 /\ capture_ok
            /\ dl_call' = [dl_call EXCEPT
                              !.pc = IF IsNone(dl_call.last_error)
                                     THEN "returned" ELSE "raised",
                              !.raised = dl_call.last_error]
            /\ UNCHANGED dl_files
       ELSE IF outcome.kind = "ok"
         THEN /\ jitter = 0 /\ capture_ok
              /\ dl_call' = [dl_call EXCEPT !.pc = "streaming", !.attempt = @ + 1]
              /\ dl_files' = [dl_files EXCEPT !.part = Some(OpenTemp(@))]
       ELSE /\ outcome.kind \in {"http", "transport"}
            /\ DlFail([dl_call EXCEPT !.attempt = @ + 1], outcome, jitter, capture_ok)
    /\ UNCHANGED <<file, gen, runVars, walkVars, saveVars, get_call,
                   cacheVars, fn_call>>

\* Lines 354-356: one chunk of the body is written to the .part file
DlChunk ==
    /\ dl_call.pc = "streaming"
    /\ Len(Get(dl_files.part)) < BodyChunks
    /\ dl_files' = [dl_files EXCEPT
                       !.part = Some(Append(Get(@), ChunkOf(dl_call.call, dl_call.attempt)))]
    /\ UNCHANGED <<file, gen, runVars, walkVars, saveVars, get_call, dl_call,
                   cacheVars, fn_call>>

\* Lines 359-362: the body ended; the .part file is renamed over the destination
DlStreamEnd ==
    /\ dl_call.pc = "streaming"
    /\ Len(Get(dl_files.part)) = BodyChunks
    /\ dl_files' = [dl_files EXCEPT !.destination = dl_files.part, !.part = None]
    /\ dl_call' = [dl_call EXCEPT !.pc = "returned",
                                  !.saved_paths = Append(@, "xml"),
                                  !.log = Append(@, Pass(Ok, None))]
    /\ UNCHANGED <<file, gen, runVars, walkVars, saveVars, get_call,
                   cacheVars, fn_call>>

\* Lines 357-358 and 374-384: the stream broke off after any number of chunks
DlStreamError(jitter, capture_ok) ==
    /\ dl_call.pc = "streaming"
    /\ DlFail(dl_call, StreamError, jitter, capture_ok)
    /\ UNCHANGED <<file, gen, runVars, walkVars, saveVars, get_call,
                   cacheVars, fn_call>>

\* The process is killed while a response is awaited or streamed: no handler
\* runs and the files stay as they are
DlCrash ==
    /\ dl_call.pc \in {"loop", "streaming"}
    /\ dl_call' = [dl_call EXCEPT !.pc = "crashed"]
    /\ UNCHANGED <<file, gen, runVars, walkVars, saveVars, get_call, dl_files,
                   cacheVars, fn_call>>

\* Lines 419-427 reached from a handler of lines 363-380: the process is
\* killed, or the write fails, while html_destination.write_text writes the
\* .html sibling in place; the file is left holding what was written so far
DlCaptureTorn(outcome) ==
    /\ dl_call.pc \in {"loop", "streaming"}
    /\ IF dl_call.pc = "loop"
       THEN /\ dl_call.attempt < dl_call.max_retries
            /\ outcome \in DlOutcomes
            /\ outcome.kind \in {"http", "transport"}
       ELSE outcome = StreamError
    /\ LET c == [dl_call EXCEPT
                    !.attempt = IF dl_call.pc = "loop" THEN @ + 1 ELSE @,
                    !.last_error = Some(outcome),
                    !.discarded = IF IsNone(dl_files.part) THEN @
                                  ELSE @ + Len(Get(dl_files.part))]
       IN /\ _should_use_html_fallback(c.attempt, c.html_fallback_url, c.max_retries)
          /\ dl_files' = [dl_files EXCEPT !.part = None, !.html = Some("partial")]
          /\ dl_call' = [c EXCEPT !.pc = "crashed", !.captures = @ + 1,
                                  !.log = Append(@, Pass(outcome, None))]
    /\ UNCHANGED <<file, gen, runVars, walkVars, saveVars, get_call,
                   cacheVars, fn_call>>

DlInit ==
    /\ file = None
    /\ overwrite \in BOOLEAN
    /\ gen = NewIterPages(None, Some(0), None)
    /\ RunInit
    /\ AuxInit

DlNext ==
    \/ \E max_retries \in 0..MaxRetries, backoff_factor \in {0},
          html_fallback_url \in BOOLEAN :
          DlCall(max_retries, backoff_factor, html_fallback_url)
    \/ \E outcome \in DlOutcomes, jitter \in 0..(MaxBackoff * 2^MaxRetries),
          capture_ok \in BOOLEAN :
          DlRequest(outcome, jitter, capture_ok)
    \/ DlChunk
    \/ DlStreamEnd
    \/ \E jitter \in 0..(MaxBackoff * 2^MaxRetries), capture_ok \in BOOLEAN :
          DlStreamError(jitter, capture_ok)
    \/ DlCrash
    \/ \E outcome \in DlOutcomes \cup {StreamError} : DlCaptureTorn(outcome)

SpecDownload == DlInit /\ [][DlNext]_vars


OffsetOf(u) ==
    IF IsNone(extract_offset(Some(u))) THEN 0 ELSE Get(extract_offset(Some(u)))

\* The documents of u's year that are listed before position k of page u
DocsBefore(u, k) ==
    IF IsNone(u.year) THEN {}
    ELSE {Doc(Get(u.year), pos) : pos \in 1..Min(OffsetOf(u) + k, NumDocs)}

HasCheckpoint == ~IsNone(file)

CkptUrl == Get(file).payload.resume_url

CkptIndex == Get(file).payload.resume_index

InPage == pc \in {"doc", "download", "commit"}

\* The checkpoint is the whole payload for the current page at index k
CheckpointAt(k) ==
    file = FileOf("full", Payload(page.current_url, k, total_documents, total_files))

\* C1: with checkpointing enabled and no explicit start URL, no document
\* whose processing failed (link fetch or download error) lies before the
\* position the persisted checkpoint names, so that a restart would skip it.
C1_CheckpointNeverPastFailed ==
    (use_checkpoint /\ ~explicit_used /\ HasCheckpoint)
        => DocsBefore(CkptUrl, CkptIndex) \cap failed = {}

\* The documents of page u from position k on, in listing order
Remaining(u, k) == SubSeq(PageDocs(u), Min(k, Len(PageDocs(u))) + 1, Len(PageDocs(u)))

IsPrefix(a, b) == Len(a) <= Len(b) /\ SubSeq(b, 1, Len(a)) = a

Resumed == ~IsNone(loaded)

\* run is on the page its checkpoint named
OnResumedPage ==
    /\ Resumed
    /\ InPage
    /\ page.number = 1
    /\ Some(years[current_year_idx + 1]) = Get(loaded).resume_url.year

\* C2 as written: a run resumed from (P, k) has, once it is through P,
\* attempted exactly the documents of P from position k on, in order, and
\* with overwrite off nothing on disk was requested again.
C2_ResumeAttemptsAllRemaining ==
    /\ (OnResumedPage /\ pc = "doc" /\ idx >= Len(page.documents))
          => fetch_calls = Remaining(Get(loaded).resume_url, Get(loaded).resume_index)
    /\ ~overwrite => refetched = {}

\* C2 amended: a run resumed from (P, k) attempts none of the first k
\* documents of P and attempts the remaining ones in listing order, all of
\* them once it is through P unless the item limit cut the page short; with
\* overwrite off no file on disk is requested over the network again.
C2_ResumeSkipsExactlyK ==
    /\ OnResumedPage
          => IsPrefix(fetch_calls,
                      Remaining(Get(loaded).resume_url, Get(loaded).resume_index))
    /\ (OnResumedPage /\ pc = "doc" /\ idx >= Len(page.documents) /\ ~PageTruncated)
          => fetch_calls = Remaining(Get(loaded).resume_url, Get(loaded).resume_index)
    /\ ~overwrite => refetched = {}

C2_Witness ==
    /\ OnResumedPage /\ pc = "doc" /\ idx >= Len(page.documents) /\ ~PageTruncated
    /\ Get(loaded).resume_index = 1
    /\ Len(fetch_calls) = 1
    /\ ~overwrite
    /\ fetch_calls[1] \in disk

C4_FirstFailureFreezes ==
    (use_checkpoint /\ last_event.kind \in {"error", "nolinks", "download_error"}
       /\ last_event.contiguous)
        => /\ page_resume_index = last_event.idx
           /\ ~contiguous_prefix
           /\ CheckpointAt(last_event.idx)

\* C5: while the prefix is contiguous the checkpoint on disk is (page, idx)
\* whenever the document at idx is about to be, or is being, handled: the
\* checkpoint past document i was written before document i + 1 is touched.
C5_CheckpointBeforeNext ==
    /\ (use_checkpoint /\ InPage /\ contiguous_prefix /\ idx < Len(page.documents))
          => CheckpointAt(idx)
    /\ (use_checkpoint /\ last_event.kind = "committed" /\ last_event.contiguous)
          => CheckpointAt(last_event.idx + 1)

C5_Witness ==
    /\ use_checkpoint /\ pc = "download" /\ contiguous_prefix
    /\ last_event.kind = "links"
    /\ idx = 1
    /\ page.documents[1] \in disk
    /\ CheckpointAt(1)

\* C6: when run stops because a year is incomplete, the checkpoint is there,
\* names a page of that year, and no document the run failed on lies before
\* it (it points at the page holding the first unconsumed document).
C6_IncompleteYearCheckpoint ==
    (use_checkpoint /\ ~explicit_used /\ pc = "idle" /\ exit_reason = "incomplete")
        => /\ HasCheckpoint
           /\ CkptUrl.year = Some(years[current_year_idx + 1])
           /\ DocsBefore(CkptUrl, CkptIndex) \cap failed = {}

\* C7: once a checkpointing run has been yielded a page, a checkpoint file
\* exists at every point, unless the crawl has completed the last year.
C7_CheckpointExistsUntilComplete ==
    (use_checkpoint /\ ~explicit_used /\ last_event.kind # "none"
       /\ exit_reason # "completed")
        => HasCheckpoint

\* C8: a save interrupted at any point leaves the complete previous or the
\* complete new state on disk, so that no later load_checkpoint meets an empty
\* or half-written file.
C8_SaveIsAtomic ==
    /\ (save_pc = "idle" /\ HasCheckpoint) => Get(file).text = "full"
    /\ load_result # "CheckpointError"

\* The numeric offsets of the locators in a set
NumericOffsets(urls) ==
    {Get(extract_offset(Some(u))) : u \in {v \in urls : ~IsNone(extract_offset(Some(v)))}}

\* The pages yielded so far, each locator once
Accepted == BagToSet(walk_log)

\* C9: the walker yields no locator twice and no two locators with the same
\* numeric offset.
C9_Distinct ==
    /\ \A u \in Accepted : CopiesIn(u, walk_log) = 1
    /\ \A u \in Accepted, v \in Accepted :
          (u # v /\ ~IsNone(extract_offset(Some(u))) /\ ~IsNone(extract_offset(Some(v))))
              => extract_offset(Some(u)) # extract_offset(Some(v))

\* C9: asked for a locator that was visited, or whose numeric offset was
\* seen, the walker stops without an error and yields nothing.
C9_RejectStops ==
    (/\ walk_pc = "walking"
     /\ ~IsNone(IterTarget(gen))
     /\ \/ Get(IterTarget(gen)) \in Accepted
        \/ NumericOffsets({Get(IterTarget(gen))}) \cap NumericOffsets(Accepted) # {}
     /\ gen' # gen)
        => (walk_pc' = "stopped" /\ walk_log' = walk_log)

\* C9: the same page locator is never accepted twice in a walk, nor the same
\* numeric offset; either makes the walker stop without error.
C9_NeverAcceptedTwice == []C9_Distinct /\ [][C9_RejectStops]_vars

\* The walker has yielded pages and then stopped at a new locator whose
\* numeric offset it had seen
C9_Witness ==
    /\ walk_pc = "stopped"
    /\ BagCardinality(walk_log) >= 2
    /\ \E u \in gen.visited_pages \ Accepted :
          NumericOffsets({u}) \cap NumericOffsets(Accepted) # {}

\* Both signals are present and name different offsets, the summary's the
\* greater one
SummaryAhead ==
    /\ ~IsNone(walk_last.summary_next)
    /\ ~IsNone(walk_last.anchor_next)
    /\ ~IsNone(extract_offset(walk_last.anchor_next))
    /\ Get(extract_offset(walk_last.summary_next))
          > Get(extract_offset(walk_last.anchor_next))

\* C10 as stated: whenever the summary-derived offset is greater than the
\* anchor-derived offset, the next locator is the summary-derived one.
C10_SummaryOffsetWins ==
    SummaryAhead => walk_last.next_url = walk_last.summary_next

\* The summary-derived locator moves past the page it was read from
SummaryAdvances ==
    /\ ~IsNone(walk_last.summary_next)
    /\ \/ IsNone(extract_offset(Some(walk_last.page_url)))
       \/ Get(extract_offset(walk_last.summary_next))
             > Get(extract_offset(Some(walk_last.page_url)))

\* C10: when the summary says more documents remain and its offset lies past
\* the current page's offset (or the current page has no numeric offset), the
\* next locator is the current page's locator with the summary's offset,
\* whatever the navigation anchor names.
C10_SummaryWinsWhenAdvancing ==
    SummaryAdvances =>
        /\ walk_last.next_url = walk_last.summary_next
        /\ Get(walk_last.next_url).year = walk_last.page_url.year
        /\ Get(walk_last.next_url).filter = ParseQsFilter(walk_last.page_url.filter)

\* A page whose anchor names a smaller offset than its summary was parsed and
\* the summary's locator was chosen
C10_Witness ==
    /\ SummaryAhead
    /\ SummaryAdvances
    /\ walk_last.anchor_next # walk_last.summary_next
    /\ walk_last.next_url = walk_last.summary_next

\* The page the last fetch returned starts at or before the offset asked for
Lagging ==
    /\ ~IsNone(walk_fetch.url)
    /\ ~IsNone(extract_offset(walk_fetch.url))
    /\ Get(extract_offset(walk_fetch.url)) > 0
    /\ ~IsNone(walk_fetch.first_index)
    /\ Get(walk_fetch.first_index) <= Get(extract_offset(walk_fetch.url))

\* C11: a cached fetch of a locator with a positive offset that returns a
\* lagging page is followed by exactly one cache-bypassing fetch of the same
\* locator, whose page is taken as it is; no locator is refetched twice and a
\* page that starts beyond the offset is never refetched.
C11_OneBypassingRetry ==
    /\ (walk_pc = "bypass")
          <=> (~walk_fetch.bypass /\ ~walk_fetch.malformed /\ Lagging)
    /\ \A u \in BagToSet(walk_fetch.refetched) : CopiesIn(u, walk_fetch.refetched) = 1
    /\ (walk_fetch.bypass /\ ~walk_fetch.malformed) => walk_pc \in {"walking", "stopped"}
    /\ (walk_fetch.bypass /\ walk_pc = "walking")
          => /\ Some(walk_last.page.current_url) = walk_fetch.url
             /\ walk_last.page.first_index = walk_fetch.first_index

\* The refetch returned a page that still lags and the walker yielded it
C11_Witness ==
    /\ walk_fetch.bypass
    /\ Lagging
    /\ walk_pc = "walking"
    /\ Some(walk_last.page.current_url) = walk_fetch.url
    /\ walk_last.page.first_index = walk_fetch.first_index

\* C13: a yielded page that carries first_index and last_index holds exactly
\* last_index - first_index + 1 documents, and a fetched page whose counters
\* disagree with its articles ends the walk with a parse error.
C13_YieldedCountsAgree ==
    /\ (~IsNone(walk_last.page.first_index) /\ ~IsNone(walk_last.page.last_index))
          => Get(walk_last.page.last_index) - Get(walk_last.page.first_index) + 1
                = Len(walk_last.page.documents)
    /\ walk_fetch.malformed => walk_pc = "failed"

\* Every document the run asked the register about was saved
AllSucceeded ==
    /\ failed = {}
    /\ \A k \in 1..Len(fetch_calls) : fetch_calls[k] \in disk

\* C12: a fresh run whose downloads all succeeded and that reached the first
\* page P of a year with L of its item limit left, L cutting P short, ends
\* having handled, last of all, exactly the first L documents of P, with the
\* checkpoint (P, L); a run without a limit resumed from a
\* checkpoint (P, k) has, once it is through P, attempted exactly the
\* documents of P after the first k.
C12_LimitThenResume ==
    /\ (/\ use_checkpoint /\ ~Resumed /\ pc = "idle" /\ exit_reason = "incomplete"
        /\ page.number = 1 /\ page.resume_url = Some(page.current_url)
        /\ AllSucceeded)
          => /\ Len(page.documents) = Get(gen.limit)
             /\ page.documents = SubSeq(PageDocs(page.current_url), 1, Get(gen.limit))
             /\ Len(fetch_calls) >= Len(page.documents)
             /\ SubSeq(fetch_calls, Len(fetch_calls) - Len(page.documents) + 1,
                       Len(fetch_calls)) = page.documents
             /\ CheckpointAt(Get(gen.limit))
    /\ (OnResumedPage /\ IsNone(gen.limit) /\ pc = "doc" /\ idx >= Len(page.documents))
          => /\ fetch_calls = Remaining(Get(loaded).resume_url, Get(loaded).resume_index)
             /\ \A k \in 1..Get(loaded).resume_index :
                   k <= Len(PageDocs(Get(loaded).resume_url))
                      => \A j \in 1..Len(fetch_calls) :
                            fetch_calls[j] # PageDocs(Get(loaded).resume_url)[k]

\* The follow-up run: resumed from (P, 1) with one document on record, no
\* limit, it has gone through P and attempted only P's second document
C12_Witness ==
    /\ runs = 2 /\ OnResumedPage /\ IsNone(gen.limit)
    /\ pc = "doc" /\ idx >= Len(page.documents)
    /\ Get(loaded).resume_index = 1
    /\ Get(loaded).total_documents = 1
    /\ Len(PageDocs(Get(loaded).resume_url)) = 2
    /\ fetch_calls = <<PageDocs(Get(loaded).resume_url)[2]>>
    /\ AllSucceeded

\* The _get call is over
GetOver == get_call.pc \in {"returned", "raised"}

\* C14: a _get call makes at least one and at most max_retries requests; no
\* request follows a successful one, a call that returns ends with a
\* success, and a call that raises raises the error of its last request,
\* at the latest when the budget is used up.
C14_GetBoundedAttempts ==
    LET n == Len(get_call.log)
    IN /\ n = get_call.attempt
       /\ n <= get_call.max_retries
       /\ GetOver => n >= 1
       /\ \A k \in 1..n :
             (get_call.log[k].outcome.kind = "ok")
                <=> (k = n /\ get_call.pc = "returned")
       /\ get_call.pc = "raised"
             => /\ n >= 1
                /\ get_call.raised = Some(get_call.log[n].outcome)
       /\ (get_call.pc = "loop") => n < get_call.max_retries

\* A call that used its whole budget of three on errors and raised the last
C14_Witness ==
    /\ get_call.pc = "raised"
    /\ get_call.max_retries = 3
    /\ Len(get_call.log) = 3
    /\ get_call.log[1].outcome.kind = "transport"
    /\ get_call.log[2].outcome.kind = "http"
    /\ get_call.raised = Some(get_call.log[3].outcome)

\* C15: in _get a response with a retriable status is followed by a delay and
\* another request when attempts remain; a response with any other error
\* status is raised at once, with no delay and no further request.
C15_RetriableOrFatal ==
    \A k \in 1..Len(get_call.log) :
        LET pass == get_call.log[k]
        IN pass.outcome.kind = "http" =>
              IF pass.outcome.status_code \in RETRIABLE_STATUSES
                 /\ k < get_call.max_retries
              THEN /\ ~IsNone(pass.delay)
                   /\ (k < Len(get_call.log) \/ get_call.pc = "loop")
              ELSE /\ IsNone(pass.delay)
                   /\ k = Len(get_call.log)
                   /\ get_call.pc = "raised"
                   /\ get_call.raised = Some(pass.outcome)

\* A 503 was waited on and retried, then a 404 on the second of four
\* attempts ended the call
C15_Witness ==
    /\ get_call.pc = "raised"
    /\ get_call.max_retries = 4
    /\ Len(get_call.log) = 2
    /\ get_call.log[1].outcome.status_code = 503
    /\ ~IsNone(get_call.log[1].delay)
    /\ get_call.log[2].outcome.status_code = 404
    /\ IsNone(get_call.log[2].delay)

\* C16: before a retry after an HTTP error the delay is the Retry-After value
\* itself when that is a non-negative number, and otherwise the backoff
\* backoff_factor * 2^(attempt-1) plus a jitter of at most half of it.
C16_RetryAfterVerbatim ==
    \A k \in 1..Len(get_call.log) :
        LET pass == get_call.log[k]
            base == BackoffBase(k, get_call.backoff_factor)
        IN (pass.outcome.kind = "http" /\ ~IsNone(pass.delay)) =>
              IF pass.outcome.retry_after.kind = "num" /\ pass.outcome.retry_after.n >= 0
              THEN Get(pass.delay) = pass.outcome.retry_after.n
              ELSE base <= Get(pass.delay) /\ Get(pass.delay) <= base + base \div 2

\* --- C17 ---------------------------------------------------------------
\* The second of two download_xml calls with the same inputs
Repeated ==
    /\ ~IsNone(dl_call.prev)
    /\ Get(dl_call.prev).max_retries = dl_call.max_retries
    /\ Get(dl_call.prev).backoff_factor = dl_call.backoff_factor
    /\ Get(dl_call.prev).html_fallback_url = dl_call.html_fallback_url

\* C17: with overwrite off, a download_xml call that repeats a call which
\* returned the destination or the .html sibling it wrote makes no request and
\* no fallback capture, leaves the destination, the .part file and the .html
\* sibling as they were and returns the same paths.
C17_SecondCallIsFree ==
    (/\ ~overwrite
     /\ Repeated
     /\ Get(dl_call.prev).pc = "returned"
     /\ Get(dl_call.prev).saved_paths # <<>>)
    => /\ dl_call.pc = "returned"
       /\ dl_call.attempt = 0
       /\ dl_call.log = <<>>
       /\ dl_call.captures = 0
       /\ dl_files = Get(dl_call.prev).files
       /\ dl_call.saved_paths = Get(dl_call.prev).saved_paths

C17_Witness ==
    /\ ~overwrite
    /\ Repeated
    /\ dl_call.html_fallback_url
    /\ Get(dl_call.prev).pc = "returned"
    /\ Get(dl_call.prev).saved_paths = <<"html">>
    /\ IsNone(dl_files.destination)
    /\ dl_call.pc = "returned"
    /\ dl_call.saved_paths = <<"html">>

\* --- C18 ---------------------------------------------------------------
\* A whole response body, all of it written by one attempt
Whole(content) ==
    /\ Len(content) = BodyChunks
    /\ \A i \in 1..Len(content) : content[i] = content[1]

\* An attempt of the running call has failed and its handler has run
AttemptFailed ==
    /\ dl_call.log # <<>>
    /\ dl_call.pc \in {"loop", "raised", "returned"}
    /\ dl_call.saved_paths # <<"xml">>

\* C18: the destination, when it exists, holds one whole response body
\* written by a single attempt; if it was absent when the call began it
\* exists only once the call has returned it after the rename, so it is absent
\* after any failed attempt and after a crash; after a failed attempt the
\* .part file is gone; and the destination a call returns after its own
\* download holds only chunks of that call's last attempt.
C18_DestinationIsWholeOrAbsent ==
    /\ ~IsNone(dl_files.destination) => Whole(Get(dl_files.destination))
    /\ (~IsNone(dl_files.destination) /\ ~dl_call.existed)
          => dl_call.pc = "returned" /\ dl_call.saved_paths = <<"xml">>
    /\ AttemptFailed => IsNone(dl_files.part)
    /\ (dl_call.pc = "returned" /\ dl_call.saved_paths = <<"xml">> /\ dl_call.log # <<>>)
          => \A i \in 1..Len(Get(dl_files.destination)) :
                Get(dl_files.destination)[i] = ChunkOf(dl_call.call, dl_call.attempt)

C18_Witness ==
    /\ dl_call.pc = "returned"
    /\ dl_call.saved_paths = <<"xml">>
    /\ Len(dl_call.log) = 2
    /\ dl_call.log[1].outcome = StreamError
    /\ dl_call.discarded > 0
    /\ dl_call.attempt = 2
    /\ Get(dl_files.destination) = <<ChunkOf(dl_call.call, 2), ChunkOf(dl_call.call, 2)>>
    /\ IsNone(dl_files.part)

\* --- C19 ---------------------------------------------------------------
\* The call is over, it made a request, and no attempt succeeded
AllAttemptsFailed ==
    /\ dl_call.pc \in {"returned", "raised"}
    /\ dl_call.log # <<>>
    /\ \A i \in 1..Len(dl_call.log) : dl_call.log[i].outcome # Ok

FallbackAfter == Min(dl_call.max_retries, 3)

\* Every failure before the fallback threshold was a transport or stream
\* error or a retriable status
FailuresRetriable ==
    \A i \in 1..Len(dl_call.log) :
        i < FallbackAfter =>
            \/ dl_call.log[i].outcome.kind \in {"transport", "stream"}
            \/ dl_call.log[i].outcome.status_code \in RETRIABLE_STATUSES

CaptureFailed == dl_call.pc = "raised" /\ dl_call.captures = 1

\* C19 as stated: with a fallback URL, when every attempt fails there are
\* exactly min(max_retries, 3) attempts, one fallback capture and exactly the
\* .html path returned.
C19_FallbackAfterAllFailures ==
    (dl_call.html_fallback_url /\ AllAttemptsFailed)
    => /\ dl_call.attempt = FallbackAfter
       /\ dl_call.captures = 1
       /\ dl_call.pc = "returned"
       /\ dl_call.saved_paths = <<"html">>

\* C19, amended: with a fallback URL, when every attempt fails, each failure
\* before the threshold is a transport error, a stream error or a retriable
\* status, and the capture itself does not fail, there are exactly
\* min(max_retries, 3) attempts, one fallback capture and exactly the .html
\* path returned; a fatal status before the threshold is raised at once with
\* no capture.  With a fallback URL the attempts never exceed
\* min(max_retries, 3), there is at most one capture and no attempt after it,
\* and the call never raises for want of attempts: it raises only a fatal
\* status met before the threshold or the failure of the capture.
C19_FallbackAfterRetriableFailures ==
    dl_call.html_fallback_url
    => /\ (AllAttemptsFailed /\ FailuresRetriable /\ ~CaptureFailed)
             => /\ dl_call.attempt = FallbackAfter
                /\ dl_call.captures = 1
                /\ dl_call.pc = "returned"
                /\ dl_call.saved_paths = <<"html">>
       /\ (AllAttemptsFailed /\ ~FailuresRetriable)
             => /\ dl_call.pc = "raised"
                /\ dl_call.captures = 0
                /\ dl_call.attempt < FallbackAfter
       /\ dl_call.attempt <= FallbackAfter
       /\ dl_call.captures <= 1
       /\ dl_call.captures = 1
             => /\ dl_call.pc \in {"returned", "raised", "crashed"}
                /\ dl_call.attempt = FallbackAfter
       /\ dl_call.pc = "raised" => CaptureFailed \/ ~FailuresRetriable

C19_Witness ==
    /\ dl_call.html_fallback_url
    /\ dl_call.max_retries = 4
    /\ AllAttemptsFailed
    /\ dl_call.attempt = 3
    /\ dl_call.captures = 1
    /\ dl_call.pc = "returned"
    /\ dl_call.saved_paths = <<"html">>
    /\ dl_files.html = Some("trimmed")
    /\ IsNone(dl_files.destination)

\* --- C20 ---------------------------------------------------------------
\* download_xml raises for the document at idx
DownloadRaises == pc = "download" /\ last_event'.kind = "download_error"

\* fetch_xml_links returns no link for the document at idx
NoLinkFound ==
    pc = "doc" /\ fetch_calls' # fetch_calls /\ last_event'.kind = "nolinks"

\* The checkpoint file names the current page at a position up to k
CheckpointUpTo(k) ==
    /\ ~IsNone(file)
    /\ Get(file).text = "full"
    /\ Get(file).payload.resume_url = page.current_url
    /\ Get(file).payload.resume_index <= k

\* C20: the step in which download_xml raises ends the run with a non-zero
\* exit status and, when a checkpoint is kept, leaves on disk a checkpoint of
\* the current page at a position no later than the failing document (at
\* that document when the prefix was contiguous); until another run is
\* started no document is resolved, no page is fetched and nothing is
\* downloaded.  The step in which a document has no XML link neither ends
\* the run nor sets an exit status and moves on to the next document.
C20_DownloadErrorIsFatal ==
    [][/\ DownloadRaises
            => /\ pc' = "idle"
               /\ exit_status' # 0
               /\ exit_reason' = "download_error"
               /\ use_checkpoint => CheckpointUpTo(idx)'
               /\ (use_checkpoint /\ contiguous_prefix) => CheckpointAt(idx)'
       /\ exit_reason = "download_error"
            => /\ pc = "idle"
               /\ last_event.kind = "download_error"
               /\ fetch_calls[Len(fetch_calls)] = page.documents[last_event.idx + 1]
       /\ (exit_reason = "download_error" /\ runs' = runs)
            => UNCHANGED <<fetch_calls, gen, page, idx, disk, file, pc>>
       /\ NoLinkFound
            => /\ pc' = "doc"
               /\ idx' = idx + 1
               /\ UNCHANGED <<exit_status, exit_reason, page, contiguous_prefix>>
      ]_vars

\* In a first run the first document of a page had no XML link, the second
\* was attempted and its download raised
C20_Witness ==
    /\ runs = 1
    /\ pc = "idle"
    /\ exit_reason = "download_error"
    /\ exit_status = 1
    /\ last_event.kind = "download_error"
    /\ last_event.idx = 1
    /\ last_event.contiguous
    /\ skip_in_page = 0
    /\ total_documents = 0
    /\ Len(fetch_calls) = 2
    /\ fetch_calls[1] \notin failed
    /\ use_checkpoint
    /\ CheckpointAt(1)

\* --- C21 ---------------------------------------------------------------
\* The run is over
RunOver == pc = "idle" /\ runs > 0

\* C21: a run that ended with more than 10% of its attempted downloads
\* failed has printed the failure-rate warning.
C21_WarningSurfaced ==
    (RunOver /\ report.download_failures * 10 > report.download_total)
        => report.warned

\* --- C22 ---------------------------------------------------------------
\* C22: a run ended by an interrupt has printed its summary, returned
\* without an error status, and left the checkpoint file, if there is one,
\* holding a complete checkpoint.
C22_InterruptIsClean ==
    (RunOver /\ exit_reason = "interrupt")
        => /\ report.summary
           /\ exit_status = 0
           /\ HasCheckpoint => Get(file).text = "full"

\* --- C23 ---------------------------------------------------------------
\* A run with the checkpoint in use has ended without doing anything after
\* its startup; the checkpoint file is as that run found it
EndedAtStartup == RunOver /\ use_checkpoint /\ last_event = NoEvent /\ ~gen.started

\* C23: a run that finds a checkpoint file whose content is not a parseable
\* checkpoint ends at startup with CheckpointError, a non-zero exit status,
\* no page fetched and the file untouched; and a run that loads no checkpoint
\* found the file absent or without a resume_url.
C23_UnparseableIsCheckpointError ==
    /\ (EndedAtStartup /\ HasCheckpoint /\ Get(file).text \in StartupTexts \ {"nourl"})
          => /\ exit_reason = "checkpoint_error"
             /\ exit_status # 0
             /\ fetch_calls = <<>>
    /\ (runs = 1 /\ pc = "year" /\ use_checkpoint /\ IsNone(loaded) /\ ~explicit_used)
          => (~HasCheckpoint \/ Get(file).text = "nourl")

\* --- C24 ---------------------------------------------------------------
\* The first run has just gone through its startup with a checkpoint present
StartedWithCheckpoint ==
    /\ runs = 1 /\ pc = "year"
    /\ use_checkpoint /\ HasCheckpoint /\ Get(file).text = "full"

\* Two locators of the same listing: the same year, offset and filter
\* parameters (a parameter with a blank value is dropped when run merges the
\* locator into the year's URL)
SameListing(u, v) ==
    /\ u.year = v.year
    /\ u.offset = v.offset
    /\ ParseQsFilter(u.filter) = ParseQsFilter(v.filter)

\* The first run is on the first page the walker yielded
OnFirstPage == runs = 1 /\ pc = "doc" /\ page.number = 1 /\ fetch_calls = <<>>

\* C24: a run that starts with a checkpoint and no explicit start URL takes
\* the checkpoint's locator, resume index and totals, and its first page is
\* the page of that locator, entered after the first resume_index documents
\* (all of them if the page is shorter); a run given an explicit start URL
\* takes nothing from the checkpoint: its totals and resume index are 0 and
\* its first page is the page of the explicit URL, entered at its start.
C24_StartupFromCheckpoint ==
    /\ (StartedWithCheckpoint /\ ~explicit_used)
          => /\ loaded = load_checkpoint(file).state
             /\ SameListing(Get(current_start_url), Get(file).payload.resume_url)
             /\ pending_resume_index = Get(file).payload.resume_index
             /\ total_documents = Get(file).payload.total_documents
             /\ total_files = Get(file).payload.total_files
    /\ (StartedWithCheckpoint /\ explicit_used)
          => /\ IsNone(loaded)
             /\ pending_resume_index = 0
             /\ total_documents = 0
             /\ total_files = 0
             /\ SameListing(Get(current_start_url), ExplicitStartUrl)
    /\ (OnFirstPage /\ Resumed)
          => /\ SameListing(page.current_url, Get(loaded).resume_url)
             /\ skip_in_page = Min(Get(loaded).resume_index, Len(page.documents))
             /\ total_documents = Get(loaded).total_documents
    /\ (OnFirstPage /\ explicit_used)
          => /\ SameListing(page.current_url, ExplicitStartUrl)
             /\ skip_in_page = 0
             /\ total_documents = 0

C24_Witness ==
    /\ OnFirstPage /\ Resumed
    /\ Get(loaded).resume_index = 1
    /\ Get(loaded).total_documents = 1
    /\ ~IsNone(Get(loaded).resume_url.offset)
    /\ skip_in_page = 1
    /\ Len(page.documents) >= 1

\* --- C25 ---------------------------------------------------------------
\* The entry the last read found exists, can be read and is within the ttl
EntryLive ==
    /\ cache_call.policy.ttl_seconds > 0
    /\ ~IsNone(cache_call.entry)
    /\ ~cache_call.os_error
    /\ cache_call.now - Get(cache_call.entry).mtime <= cache_call.policy.ttl_seconds

\* C25: a read returns the text last written for its (namespace, key) when
\* the ttl is positive and the entry exists, is readable and is no older than
\* the ttl; it is a miss in every other case; and it raises nothing.
C25_ReadHitsExactlyFresh ==
    cache_call.op = "read"
        => /\ cache_call.outcome.result # "raised"
           /\ EntryLive => cache_call.outcome =
                              CacheResult("hit", Some(Get(cache_call.entry).payload))
           /\ ~EntryLive => cache_call.outcome = CacheResult("miss", None)

\* --- C26 ---------------------------------------------------------------
\* The path of the URL without a leading "xml" segment
RestOfPath(url) ==
    IF url.path # <<>> /\ url.path[1] = "xml" THEN Tail(url.path) ELSE url.path

IsSuffix(t, u) ==
    Len(t) <= Len(u) /\ SubSeq(u, Len(u) - Len(t) + 1, Len(u)) = t

\* C26: a download URL that embeds a year is placed below the output root
\* in the directory of that year, with the rest of its path (less a leading
\* "xml" segment) beneath it; the year directory is added when that path does
\* not start with it and is not added again when it does.
C26_UnderYearDirectory ==
    (fn_call.fn = "_target_path" /\ ~IsNone(_guess_year(fn_call.args[1])))
        => LET url == fn_call.args[1]
               year == YearDir(Get(_guess_year(url)))
               target == fn_call.result
           IN /\ target.error = "none"
              /\ target.path # <<>>
              /\ target.path[1] = year
              /\ IsSuffix(RestOfPath(url), target.path)
              /\ IF RestOfPath(url) # <<>> /\ RestOfPath(url)[1] = year
                 THEN target.path = RestOfPath(url)
                 ELSE target.path = <<year>> \o RestOfPath(url)

\* --- C27 ---------------------------------------------------------------
\* The offset extract_offset reads from a locator of the call
SelectOffset(u) == extract_offset(Some(u))

\* A candidate moves forward from current offset c: its own offset is not a
\* number, or c is absent, or its offset is strictly greater than c
MovesForward(candidate, c) ==
    \/ IsNone(SelectOffset(candidate))
    \/ IsNone(c)
    \/ Get(SelectOffset(candidate)) > Get(c)

\* C27: for every current offset c, summary candidate s and anchor candidate
\* a, _select_next_url returns s if s is present and moves forward from c,
\* else a if a is present and moves forward from c, else no next locator.
C27_SelectNextUrl ==
    fn_call.fn = "_select_next_url"
        => LET c == SelectOffset(fn_call.args[1])
               s == fn_call.args[2]
               a == fn_call.args[3]
           IN fn_call.result =
                 IF ~IsNone(s) /\ MovesForward(Get(s), c) THEN s
                 ELSE IF ~IsNone(a) /\ MovesForward(Get(a), c) THEN a
                 ELSE None

\* The summary candidate stalls at the current offset and the anchor
\* candidate, a different locator, is taken instead
C27_Witness ==
    /\ fn_call.fn = "_select_next_url"
    /\ ~IsNone(fn_call.args[2]) /\ ~IsNone(fn_call.args[3])
    /\ ~IsNone(SelectOffset(fn_call.args[1]))
    /\ SelectOffset(Get(fn_call.args[2])) = SelectOffset(fn_call.args[1])
    /\ fn_call.result = fn_call.args[3]
    /\ fn_call.result # fn_call.args[2]

\* --- C28 ---------------------------------------------------------------
\* The caller was handed a page in this step
PageYielded == walk_log' # walk_log

\* The numeric offset of a locator, if it carries one
NumericOffset(u) == extract_offset(u)

\* Neither candidate of the page last parsed moves forward from its offset
NoProgress ==
    /\ walk_log # EmptyBag
    /\ \A candidate \in {walk_last.summary_next, walk_last.anchor_next} :
          \/ IsNone(candidate)
          \/ /\ ~IsNone(NumericOffset(candidate))
             /\ ~IsNone(NumericOffset(Some(walk_last.page_url)))
             /\ Get(NumericOffset(candidate))
                   <= Get(NumericOffset(Some(walk_last.page_url)))

\* C28: within one iter_pages call, of two consecutively yielded pages whose
\* locators both carry a numeric offset the later has the strictly greater
\* offset, and when neither candidate of a page moves forward the page has no
\* next locator and the walk ends after it without another fetch.
C28_OnlyForward ==
    /\ [][(PageYielded /\ walk_log # EmptyBag
            /\ ~IsNone(NumericOffset(Some(walk_last.page.current_url)))
            /\ ~IsNone(NumericOffset(Some(walk_last'.page.current_url))))
           => Get(NumericOffset(Some(walk_last'.page.current_url)))
                 > Get(NumericOffset(Some(walk_last.page.current_url)))]_vars
    /\ [](NoProgress => (IsNone(walk_last.page.next_url) /\ IsNone(IterTarget(gen))))
    /\ [][NoProgress => (walk_log' = walk_log /\ walk_fetch' = walk_fetch
                          /\ walk_pc' = "stopped")]_vars

\* Two pages in a row were yielded from locators with numeric offsets
C28_Witness ==
    /\ ~IsNone(walk_last.previous)
    /\ ~IsNone(NumericOffset(walk_last.previous))
    /\ ~IsNone(NumericOffset(Some(walk_last.page.current_url)))
    /\ Get(NumericOffset(Some(walk_last.page.current_url)))
          > Get(NumericOffset(walk_last.previous))

\* --- C29 ---------------------------------------------------------------
\* The item limit kept only some of the documents of the page last yielded
CutShort ==
    /\ walk_log # EmptyBag
    /\ Len(walk_last.page.documents) < walk_last.fetched

\* C29: iter_pages called with item limit L yields pages whose document
\* counts sum to at most L and never a page the limit emptied; a page the
\* limit cut short is the last one yielded and its resume locator is its own
\* locator, and every page not cut short has its next locator as its resume
\* locator.
C29_ItemLimit ==
    /\ [][PageYielded
             => gen'.processed = gen.processed + Len(walk_last'.page.documents)]_vars
    /\ [](~IsNone(gen.limit) => gen.processed <= Get(gen.limit))
    /\ []((walk_log # EmptyBag /\ walk_last.page.documents = <<>>)
             => walk_last.fetched = 0)
    /\ [](CutShort => /\ IsNone(IterTarget(gen))
                      /\ walk_last.page.resume_url = Some(walk_last.page.current_url))
    /\ [][CutShort => walk_log' = walk_log]_vars
    /\ []((walk_log # EmptyBag /\ ~CutShort)
             => walk_last.page.resume_url = walk_last.page.next_url)

\* The second page of a walk was cut short by what was left of the limit
C29_Witness ==
    /\ CutShort
    /\ BagCardinality(walk_log) >= 2
    /\ walk_last.page.documents # <<>>
    /\ gen.processed = Get(gen.limit)
    /\ walk_last.page.next_url # Some(walk_last.page.current_url)

\* --- C30 ---------------------------------------------------------------
\* The pages yielded so far in this call
PagesYielded == BagCardinality(walk_log)

\* C30: iter_pages called with a page-count budget max_pages yields at most
\* max_pages pages and fetches no listing page once that many were yielded;
\* with max_pages <= 0 it yields nothing and fetches nothing.
C30_PageBudget ==
    /\ []((~IsNone(gen.max_pages) /\ Get(gen.max_pages) > 0)
             => PagesYielded <= Get(gen.max_pages))
    /\ []((~IsNone(gen.max_pages) /\ Get(gen.max_pages) <= 0)
             => (PagesYielded = 0 /\ walk_fetch = NoFetch))
    /\ [][(~IsNone(gen.max_pages) /\ PagesYielded >= Get(gen.max_pages))
             => (walk_fetch' = walk_fetch /\ walk_log' = walk_log)]_vars

\* The walk stopped for the budget alone: the last page allowed had a next
\* locator not yet visited and was not cut short
C30_Witness ==
    /\ walk_pc = "stopped"
    /\ ~IsNone(gen.max_pages)
    /\ Get(gen.max_pages) >= 2
    /\ PagesYielded = Get(gen.max_pages)
    /\ ~CutShort
    /\ ~IsNone(walk_last.page.next_url)
    /\ Get(walk_last.page.next_url) \notin gen.visited_pages

\* --- C31 ---------------------------------------------------------------
\* A listing was fetched in this step and taken as the page's content
FetchTaken == walk_fetch' # walk_fetch /\ walk_pc' # "bypass" /\ ~walk_fetch'.malformed

\* The item limit had nothing left before this step
LimitSpent == ~IsNone(gen.limit) /\ gen.processed >= Get(gen.limit)

\* The listing taken in this step carries the summary text of the page
\* yielded just before it
RepeatsSummary ==
    /\ walk_log # EmptyBag
    /\ ~IsNone(walk_fetch'.description)
    /\ walk_fetch'.description = walk_last.page.description

\* The walk stopped on the listing taken in this step, yielding nothing
StoppedOnPage == walk_pc' = "stopped" /\ walk_log' = walk_log

\* C31: iter_pages stops without a yield and without an error on a page
\* whose summary text is that of the page yielded just before only when the
\* page's locator has no numeric offset or the numeric offset of that earlier
\* page; a page repeating the summary text under a new numeric offset is
\* yielded.
C31_RepeatedSummary ==
    [][(FetchTaken /\ ~LimitSpent)
         => /\ StoppedOnPage
                 => /\ RepeatsSummary
                    /\ \/ IsNone(extract_offset(walk_fetch'.url))
                       \/ extract_offset(walk_fetch'.url)
                             = extract_offset(Some(walk_last.page.current_url))
            /\ (/\ RepeatsSummary
                /\ ~IsNone(extract_offset(walk_fetch'.url))
                /\ extract_offset(walk_fetch'.url)
                      # extract_offset(Some(walk_last.page.current_url)))
                 => /\ walk_log' # walk_log
                    /\ walk_last'.page.current_url = Get(walk_fetch'.url)
                    /\ walk_last'.page.description = walk_last.page.description]_vars

\* A page at a new numeric offset repeated the summary text of the page
\* before it and was yielded
C31_Witness ==
    /\ BagCardinality(walk_log) >= 2
    /\ ~IsNone(walk_last.previous)
    /\ ~IsNone(extract_offset(Some(walk_last.page.current_url)))
    /\ extract_offset(Some(walk_last.page.current_url))
          # extract_offset(walk_last.previous)
    /\ walk_last.page.description = gen.last_description
    /\ walk_fetch.bypass
    /\ walk_fetch.description = walk_last.page.description
    /\ walk_last.page.first_index = Some(1)

\* --- C32 ---------------------------------------------------------------
\* A whole checkpoint naming the listing page of locator u is on disk
CheckpointFor(f, u) ==
    ~IsNone(f) /\ Get(f).text = "full" /\ SameListing(Get(f).payload.resume_url, u)

\* This step of a run leaves on disk a checkpoint for the page being
\* processed, where a checkpoint for that page was on disk before: one this
\* run wrote, or the one it resumed from
PageRewritten ==
    /\ use_checkpoint
    /\ pc \in {"iter", "doc", "download", "commit"}
    /\ pc = "iter" => (pc' = "doc" /\ Resumed)
    /\ CheckpointFor(file, page'.current_url)
    /\ CheckpointFor(file', page'.current_url)

\* C32: while run processes one page the resume index persisted for that
\* page never decreases, and once a failure at position i has cleared the
\* contiguous-prefix flag every later checkpoint write for the page carries
\* resume index i, whatever later documents of the page succeed.
C32_ResumeIndexForward ==
    [][PageRewritten
         => /\ Get(file').payload.resume_index >= Get(file).payload.resume_index
            /\ (pc # "iter" /\ ~contiguous_prefix)
                  => /\ page_resume_index' = page_resume_index
                     /\ Get(file').payload.resume_index = page_resume_index]_vars

\* --- C33 ---------------------------------------------------------------
\* C33: the resume index loaded from the checkpoint is applied only to the
\* first page yielded after startup, where min(resume index, number of
\* documents on the page) leading documents are skipped; every later page
\* of the run, and the first page of every later year, is processed from its
\* first document.
C33_ResumeIndexOnce ==
    InPage
        => /\ skip_in_page = IF OnResumedPage
                             THEN Min(Get(loaded).resume_index, Len(page.documents))
                             ELSE 0
           /\ idx >= skip_in_page
           /\ last_event.kind = "page" => idx = skip_in_page

\* A run resumed with a resume index of 1 or more is on a page of a later
\* year, having skipped nothing of it
C33_Witness ==
    /\ Resumed /\ InPage
    /\ Get(loaded).resume_index >= 1
    /\ Some(years[current_year_idx + 1]) # Get(loaded).resume_url.year
    /\ page.number = 1
    /\ page.documents # <<>>
    /\ skip_in_page = 0
    /\ fetch_calls # <<>>

\* --- C34 ---------------------------------------------------------------
\* The numeric offset embedded in locator u, none if it has none
EmbeddedOffset(u) ==
    IF ~IsNone(u.offset) /\ Get(u.offset).int THEN Some(Get(u.offset).n) ELSE None

PlainInvocation ==
    /\ fn_call.fn = "main"
    /\ IsNone(fn_call.args[1]) /\ IsNone(fn_call.args[2]) /\ ~fn_call.args[3]

\* C35: when main is invoked without --start-url, --offset and --no-resume
\* while a checkpoint file exists, the crawl resumes from the checkpoint's
\* locator and resume index and not from the start of the year range.
C35_MainResumes ==
    (PlainInvocation /\ StartedWithCheckpoint)
        => /\ loaded = load_checkpoint(file).state
           /\ SameListing(Get(current_start_url), Get(file).payload.resume_url)
           /\ pending_resume_index = Get(file).payload.resume_index

\* --- C36 ---------------------------------------------------------------
\* The walk is over: the generator returned or raised
WalkOver == walk_pc \in {"stopped", "failed"}

\* C36: iter_pages terminates whatever next-page signals the source returns:
\* every pass of its loop either ends the walk or adds to the visited set a
\* locator that was not in it, and the inner stale-cache loop fetches a
\* locator at most twice (no locator is fetched past the cache twice, and a
\* cache-bypassing fetch is never followed by another fetch of the locator).
C36_WalkTerminates ==
    /\ <>WalkOver
    /\ [][(walk_pc \in {"walking", "bypass"} /\ walk_pc' = "walking")
            => \E u \in gen'.visited_pages :
                  /\ u \notin gen.visited_pages
                  /\ gen'.visited_pages = gen.visited_pages \cup {u}]_vars
    /\ [][walk_pc = "bypass" => walk_pc' \in {"walking", "stopped", "failed"}]_vars
    /\ [](\A u \in BagToSet(walk_fetch.refetched) :
             CopiesIn(u, walk_fetch.refetched) = 1)

\* The walk ended on a next-page signal that points at a locator already
\* visited, after two pages
C36_Witness ==
    /\ walk_pc = "stopped"
    /\ BagCardinality(walk_log) >= 2
    /\ IsNone(gen.max_pages) /\ IsNone(gen.limit)
    /\ ~IsNone(walk_last.page.next_url)
    /\ Get(walk_last.page.next_url) \in gen.visited_pages
\* --- repeated invocations of run with the same item limit ---

MaxRepeatLimit == 3

\* run(limit = L) invoked again with the limit of the invocation before
RepeatRun(L) ==
    /\ runs = 0 \/ run_limit = Some(L)
    /\ StartRun(None, None, Some(L), FALSE)

\* A static register and no failures: every link fetch finds its links,
\* every download succeeds and nothing interrupts the run
RepeatNext ==
    \/ \E L \in 1..MaxRepeatLimit : RepeatRun(L)
    \/ YearLoop
    \/ NextPage
    \/ FetchXmlLinks("links")
    \/ DownloadXml(TRUE)
    \/ CommitDocument
    \/ EndPage
    \/ EndYear

SpecRepeat == Init /\ [][RepeatNext]_vars

\* --- C37 ---

\* The run was resumed from a checkpoint (P, k) whose page P lists documents
\* after position k
ResumedInsidePage ==
    /\ Resumed
    /\ Get(loaded).resume_index < Len(PageDocs(Get(loaded).resume_url))

\* C37: when run is invoked repeatedly with the same limit on a static
\* register without failures, a run resumed from a checkpoint (P, k) whose
\* page still lists unprocessed documents has, when it is over, processed at
\* least one document that lies after the position the checkpoint named.
C37_RepeatedLimitProgresses ==
    (RunOver /\ ResumedInsidePage)
        => \E j \in 1..Len(fetch_calls) :
              fetch_calls[j] \notin DocsBefore(Get(loaded).resume_url,
                                               Get(loaded).resume_index)
\* --- C38 ---

\* C38: over runs that resume from the checkpoint, the total_documents a
\* whole checkpoint file carries never exceeds the number of distinct
\* documents that were downloaded: no document is counted twice.
C38_NoDoubleCount ==
    (use_checkpoint /\ ~explicit_used /\ HasCheckpoint /\ Get(file).text = "full")
        => Get(file).payload.total_documents <= Cardinality(disk)
\* --- C39 ---

\* The pass download_xml has just ended: a request made with a fallback URL
\* supplied came back with an HTTP status that is not retriable, on an
\* attempt below min(max_retries, 3)
NonRetriableBeforeFallback ==
    /\ dl_call.pc = "loop"
    /\ dl_call.html_fallback_url
    /\ Len(dl_call'.log) = Len(dl_call.log) + 1
    /\ dl_call'.log[Len(dl_call'.log)].outcome.kind = "http"
    /\ dl_call'.log[Len(dl_call'.log)].outcome.status_code \notin RETRIABLE_STATUSES
    /\ dl_call'.attempt < FallbackAfter

\* C39: with a fallback URL supplied, an HTTP error with a non-retriable
\* status on an attempt below min(max_retries, 3) ends download_xml at once:
\* that error is raised, the pass does not sleep for another attempt, the
\* raw page is not captured and the .html sibling is left as it was.
C39_NonRetriableAborts ==
    [][NonRetriableBeforeFallback
          => /\ dl_call'.pc = "raised"
             /\ dl_call'.raised = Some(dl_call'.log[Len(dl_call'.log)].outcome)
             /\ IsNone(dl_call'.log[Len(dl_call'.log)].delay)
             /\ dl_call'.attempt = dl_call.attempt + 1
             /\ dl_call'.captures = 0
             /\ dl_call'.saved_paths = <<>>
             /\ dl_files'.html = dl_files.html]_vars

\* A 404 on the first of four allowed attempts ended the call
C39_Witness ==
    /\ dl_call.pc = "raised"
    /\ dl_call.html_fallback_url
    /\ dl_call.max_retries = 4
    /\ dl_call.attempt = 1
    /\ dl_call.raised = Some(Outcome("http", 404, RetryAfter("absent", 0), "requests"))
    /\ dl_call.captures = 0
    /\ IsNone(dl_files.html)
\* --- C40 ---

\* download_xml returned a file it found on disk, without a request
KeptExisting == dl_call.pc = "returned" /\ dl_call.attempt = 0

\* C40: a file that the skip check of download_xml accepts as already
\* complete was written completely: a kept destination holds the whole body
\* of one response, and a kept .html sibling holds the whole trimmed page.
C40_KeptFilesAreWhole ==
    KeptExisting
        => /\ dl_call.saved_paths = <<"xml">>
                => /\ ~IsNone(dl_files.destination)
                   /\ Len(Get(dl_files.destination)) = BodyChunks
           /\ dl_call.saved_paths = <<"html">>
                => dl_files.html = Some("trimmed")
====
